--------------------------- MODULE SizeclassProofs ---------------------------
(***************************************************************************)
(* The arithmetic of size classes, for every width and every threshold:    *)
(* the classes' sizes grow, and the class of a size is the least in which  *)
(* it fits.                                                                *)
(***************************************************************************)
EXTENDS Sizeclass, DataLemmas

-----------------------------------------------------------------------------
(* Bits. *)
LEMMA PowMono ==
  ASSUME NEW m \in Nat, NEW n \in Nat, m <= n
  PROVE  2 ^ m <= 2 ^ n
<1>1. CASE m = n
  BY <1>1, Pow2Nat
<1>2. CASE m < n
  <2>1. 2 * 2 ^ m <= 2 ^ n /\ 2 ^ m \in Nat /\ 2 ^ n \in Nat
    BY <1>2, Pow2Mono, Pow2Nat
  <2> QED BY <2>1
<1> QED BY <1>1, <1>2

(* The exponents of a power of two that is below another one. *)
LEMMA PowBelow ==
  ASSUME NEW m \in Nat, NEW n \in Nat, 2 ^ m < 2 ^ n
  PROVE  m + 1 <= n
<1>1. ~(n <= m)
  <2>1. ASSUME n <= m PROVE 2 ^ n <= 2 ^ m
    BY <2>1, PowMono
  <2>2. 2 ^ m \in Nat /\ 2 ^ n \in Nat
    BY Pow2Nat
  <2> QED BY <2>1, <2>2
<1> QED BY <1>1

(* A number that fits in size_t is kept by the conversion.                 *)
LEMMA SizeTSame ==
  ASSUME NEW x \in Nat, x < 2 ^ Bits
  PROVE  SizeT(x) = x
<1>1. 2 ^ Bits \in Nat /\ 2 ^ Bits > 0
  BY SizeclassConstants, Pow2Pos DEF SizesFit
<1>2. (0 * 2 ^ Bits + x) % 2 ^ Bits = x
  BY <1>1, RemOfSum
<1>3. 0 * 2 ^ Bits + x = x
  BY <1>1
<1> QED BY <1>2, <1>3 DEF SizeT

(* And one that fits in 8 bits.                                            *)
LEMMA Uint8Same ==
  ASSUME NEW x \in Nat, x < 256
  PROVE  Uint8(x) = x
<1>1. 2 ^ 8 = 256
  BY PowEight
<1>2. (0 * 256 + x) % 256 = x
  BY RemOfSum
<1> QED BY <1>1, <1>2 DEF Uint8

(* countl_zero of a number is given by its leading bit.                    *)
LEMMA LeadingZeros ==
  ASSUME NEW y \in Nat, NEW k \in 0 .. Bits - 1, 2 ^ k <= y, y < 2 ^ (k + 1)
  PROVE  countl_zero(y) = Bits - 1 - k
<1>1. k \in Nat /\ Bits \in Nat /\ k < Bits /\ 2 ^ k \in Nat \ {0}
  BY SizeclassConstants, Pow2Pos DEF SizesFit
<1>2. \A n \in 0 .. Bits - 1 : y \div 2 ^ (Bits - 1 - n) = 1 <=> n = Bits - 1 - k
  <2> SUFFICES ASSUME NEW n \in 0 .. Bits - 1
               PROVE  y \div 2 ^ (Bits - 1 - n) = 1 <=> n = Bits - 1 - k
    OBVIOUS
  <2> DEFINE j == Bits - 1 - n
  <2>1. j \in Nat /\ (n = Bits - 1 - k <=> j = k)
    BY <1>1
  <2> HIDE DEF j
  <2>2. 2 ^ j \in Nat \ {0} /\ 2 ^ (k + 1) = 2 * 2 ^ k
    BY <1>1, <2>1, Pow2Pos, Pow2Succ
  <2>3. y \div 2 ^ j = 1 <=> 2 ^ j <= y /\ y < 2 * 2 ^ j
    BY <2>2, QuotOne
  <2>4. CASE j = k
    BY <2>1, <2>2, <2>3, <2>4 DEF j
  <2>5. CASE j < k
    <3>1. 2 * 2 ^ j <= 2 ^ k
      BY <1>1, <2>1, <2>5, Pow2Mono
    <3>2. ~(y < 2 * 2 ^ j)
      BY <1>1, <2>2, <3>1
    <3> QED BY <2>1, <2>3, <2>5, <3>2 DEF j
  <2>6. CASE k < j
    <3>1. 2 * 2 ^ k <= 2 ^ j
      BY <1>1, <2>1, <2>6, Pow2Mono
    <3>2. ~(2 ^ j <= y)
      BY <1>1, <2>2, <3>1
    <3> QED BY <1>1, <2>1, <2>3, <2>6, <3>2 DEF j
  <2> QED BY <1>1, <2>1, <2>4, <2>5, <2>6
<1>3. Bits - 1 - k \in 0 .. Bits - 1 /\ y # 0
  BY <1>1
<1>4. (CHOOSE n \in 0 .. Bits - 1 : y \div 2 ^ (Bits - 1 - n) = 1) = Bits - 1 - k
  BY <1>2, <1>3
<1> QED BY <1>3, <1>4 DEF countl_zero

(* next_pow2_bits finds the least power of two that is not below x. *)
LEMMA NextPow2 ==
  ASSUME NEW x \in Nat, NEW k \in 0 .. Bits - 1, 2 ^ k <= x - 1, x - 1 < 2 ^ (k + 1)
  PROVE  next_pow2_bits(x) = k + 1
<1>1. /\ k \in Nat /\ k + 1 <= Bits /\ Bits \in Nat
      /\ 2 ^ k \in Nat \ {0} /\ 2 ^ (k + 1) \in Nat /\ 2 ^ Bits \in Nat
  BY SizeclassConstants, Pow2Pos DEF SizesFit
<1>2. PICK y \in Nat : y = x - 1
  BY <1>1
<1>3. 2 ^ (k + 1) <= 2 ^ Bits
  BY <1>1, PowMono
<1>4. SizeT(x - 1) = y
  BY <1>1, <1>2, <1>3, SizeTSame
<1>5. countl_zero(y) = Bits - 1 - k
  BY <1>2, LeadingZeros
<1>6. next_pow2_bits(x) = Bits - (Bits - 1 - k)
  BY <1>4, <1>5 DEF next_pow2_bits
<1> QED BY <1>1, <1>6

-----------------------------------------------------------------------------
(* Where classes begin.  The sizes of class c are above Bound(c), up to    *)
(* Bound(c + 1): the quotient of c is the exponent, its remainder the      *)
(* mantissa, and sizes of one exponent are multiples of its grain.         *)
Mantissas == 2 ^ IntermediateBits

Grain(e) == 2 ^ (MinAllocBits + (IF e = 0 THEN 0 ELSE e - 1))

Bound(c) ==
  ((c % Mantissas) + (IF c \div Mantissas = 0 THEN 0 ELSE Mantissas)) * Grain(c \div Mantissas)

(* The widths and thresholds of the tables, as the assumption orders them. *)
LEMMA Widths ==
  /\ {Bits, AddressBits, IntermediateBits, MinAllocBits, MediumThresholdBits,
      LargeThresholdBits, PageBits} \subseteq Nat
  /\ FieldBits = IntermediateBits + MinAllocBits /\ FieldBits \in Nat
  /\ FieldBits < MediumThresholdBits /\ MediumThresholdBits < LargeThresholdBits
  /\ LargeThresholdBits < AddressBits /\ AddressBits < Bits
  /\ PageBits + IntermediateBits <= MediumThresholdBits
  /\ Mantissas \in Nat \ {0}
  /\ \A e \in Nat : Grain(e) \in Nat \ {0}
<1>1. /\ {Bits, AddressBits, IntermediateBits, MinAllocBits, MediumThresholdBits,
          LargeThresholdBits, PageBits} \subseteq Nat
      /\ FieldBits = IntermediateBits + MinAllocBits /\ FieldBits \in Nat
      /\ FieldBits < MediumThresholdBits /\ MediumThresholdBits < LargeThresholdBits
      /\ LargeThresholdBits < AddressBits /\ AddressBits < Bits
      /\ PageBits + IntermediateBits <= MediumThresholdBits
  BY SizeclassConstants DEF SizesFit, FieldBits
<1>2. Mantissas \in Nat \ {0}
  BY <1>1, Pow2Pos DEF Mantissas
<1>3. ASSUME NEW e \in Nat PROVE Grain(e) \in Nat \ {0}
  <2>1. MinAllocBits + (IF e = 0 THEN 0 ELSE e - 1) \in Nat
    BY <1>1
  <2> QED BY <2>1, Pow2Pos DEF Grain
<1> QED BY <1>1, <1>2, <1>3

(* Bound, of a class written as an exponent and a mantissa. *)
LEMMA BoundOf ==
  ASSUME NEW e \in Nat, NEW m \in 0 .. Mantissas - 1
  PROVE  /\ Bound(e * Mantissas + m) = (m + (IF e = 0 THEN 0 ELSE Mantissas)) * Grain(e)
         /\ (e * Mantissas + m) \div Mantissas = e
<1>1. m \in Nat /\ m < Mantissas /\ Mantissas \in Nat /\ Mantissas > 0
  BY Widths
<1>2. (e * Mantissas + m) % Mantissas = m /\ (e * Mantissas + m) \div Mantissas = e
  BY <1>1, RemOfSum
<1> QED BY <1>2 DEF Bound

(* A size class is an exponent and a mantissa.                             *)
LEMMA Exponent ==
  ASSUME NEW c \in Nat
  PROVE  \E e \in Nat, m \in 0 .. Mantissas - 1 : c = e * Mantissas + m /\ e = c \div Mantissas
<1>1. Mantissas \in Nat /\ Mantissas > 0
  BY Widths
<1>2. /\ c \div Mantissas \in Nat /\ (c % Mantissas) \in Nat /\ (c % Mantissas) < Mantissas
      /\ c = (c \div Mantissas) * Mantissas + (c % Mantissas)
  BY <1>1, QuotRem
<1> QED BY <1>1, <1>2

(* The grain doubles from the exponent 1 on. *)
LEMMA GrainDoubles ==
  ASSUME NEW e \in Nat
  PROVE  Grain(e + 1) = (IF e = 0 THEN 1 ELSE 2) * Grain(e)
<1>1. CASE e = 0
  <2>1. Grain(1) = Grain(0)
    BY Widths DEF Grain
  <2> QED BY <1>1, <2>1, Widths
<1>2. CASE e # 0
  <2>1. MinAllocBits + (e - 1) \in Nat /\ MinAllocBits + e = (MinAllocBits + (e - 1)) + 1
    BY <1>2, Widths
  <2>2. 2 ^ (MinAllocBits + e) = 2 * 2 ^ (MinAllocBits + (e - 1))
    BY <2>1, Pow2Succ
  <2>3. Grain(e + 1) = 2 ^ (MinAllocBits + e) /\ Grain(e) = 2 ^ (MinAllocBits + (e - 1))
    BY <1>2 DEF Grain
  <2> QED BY <1>2, <2>2, <2>3
<1> QED BY <1>1, <1>2

(* The bounds of consecutive classes are one grain apart, and the grain is *)
(* small beside the bound.                                                 *)
LEMMA BoundStep ==
  ASSUME NEW c \in Nat
  PROVE  /\ Bound(c) \in Nat /\ Grain(c \div Mantissas) \in Nat \ {0}
         /\ Bound(c + 1) = Bound(c) + Grain(c \div Mantissas)
         /\ c \div Mantissas # 0 => Mantissas * Grain(c \div Mantissas) <= Bound(c)
<1>1. PICK e \in Nat, m \in 0 .. Mantissas - 1 : c = e * Mantissas + m /\ e = c \div Mantissas
  BY Exponent
<1>2. PICK n \in Nat \ {0}, g \in Nat \ {0} : n = Mantissas /\ g = Grain(e)
  BY Widths
<1>3. Bound(c) = (m + (IF e = 0 THEN 0 ELSE n)) * g
  BY <1>1, <1>2, BoundOf
<1>4. PICK p \in Nat, q \in Nat : p = m * g /\ q = n * g
  BY <1>2
<1>5. Bound(c) = p + (IF e = 0 THEN 0 ELSE q)
  <2>1. CASE e = 0
    BY <2>1, <1>2, <1>3, <1>4
  <2>2. CASE e # 0
    <3>1. (m + n) * g = m * g + n * g
      BY <1>2
    <3> QED BY <2>2, <3>1, <1>3, <1>4
  <2> QED BY <2>1, <2>2
<1>6. Bound(c + 1) = Bound(c) + g
  <2>1. CASE m + 1 < n
    <3>1. m + 1 \in 0 .. Mantissas - 1 /\ c + 1 = e * Mantissas + (m + 1)
      <4>1. e * Mantissas \in Nat
        BY <1>2
      <4> QED BY <1>1, <1>2, <2>1, <4>1
    <3>2. Bound(c + 1) = (m + 1 + (IF e = 0 THEN 0 ELSE n)) * g
      BY <3>1, <1>2, BoundOf
    <3>3. CASE e = 0
      <4>1. (m + 1) * g = m * g + g
        BY <1>2
      <4> QED BY <3>2, <3>3, <4>1, <1>2, <1>4, <1>5
    <3>4. CASE e # 0
      <4>1. (m + 1 + n) * g = m * g + n * g + g
        BY <1>2
      <4> QED BY <3>2, <3>4, <4>1, <1>2, <1>4, <1>5
    <3> QED BY <3>3, <3>4
  <2>2. CASE m + 1 = n
    <3>1. 0 \in 0 .. Mantissas - 1 /\ c + 1 = (e + 1) * Mantissas + 0
      <4>1. (e + 1) * Mantissas = e * Mantissas + Mantissas /\ e * Mantissas \in Nat
        BY <1>2
      <4> QED BY <1>1, <1>2, <2>2, <4>1
    <3>2. Bound(c + 1) = (0 + n) * Grain(e + 1)
      BY <3>1, <1>2, BoundOf
    <3>3. q = p + g
      <4>1. (m + 1) * g = m * g + g
        BY <1>2
      <4> QED BY <4>1, <2>2, <1>4
    <3>4. CASE e = 0
      <4>1. Grain(e + 1) = g
        BY <3>4, <1>2, GrainDoubles
      <4> QED BY <3>2, <3>3, <3>4, <4>1, <1>2, <1>4, <1>5
    <3>5. CASE e # 0
      <4>1. Grain(e + 1) = 2 * g
        BY <3>5, <1>2, GrainDoubles
      <4>2. n * (2 * g) = n * g + n * g
        BY <1>2
      <4> QED BY <3>2, <3>3, <3>5, <4>1, <4>2, <1>2, <1>4, <1>5
    <3> QED BY <3>4, <3>5
  <2> QED BY <2>1, <2>2, <1>2
<1>7. e # 0 => n * g <= Bound(c)
  BY <1>4, <1>5
<1> QED BY <1>1, <1>2, <1>5, <1>6, <1>7, <1>4

(* Bounds grow with the class, strictly,                                   *)
LEMMA BoundMono ==
  ASSUME NEW c \in Nat, NEW d \in Nat, c < d
  PROVE  Bound(c) < Bound(d)
<1> DEFINE Bad == {n \in Nat : c < n /\ ~(Bound(c) < Bound(n))}
<1>1. Bad = {}
  <2> SUFFICES ASSUME Bad # {} PROVE FALSE
    OBVIOUS
  <2>1. PICK n \in Bad : \A k \in Bad : n <= k
    BY NatLeast
  <2>2. n \in Nat /\ n - 1 \in Nat /\ (n - 1) + 1 = n /\ c <= n - 1 /\ ~(n <= n - 1)
    BY <2>1
  <2>3. /\ Bound(c) \in Nat /\ Bound(n - 1) \in Nat
        /\ Grain((n - 1) \div Mantissas) \in Nat \ {0}
        /\ Bound(n) = Bound(n - 1) + Grain((n - 1) \div Mantissas)
    BY <2>2, BoundStep
  <2>4. Bound(n - 1) < Bound(n)
    BY <2>3
  <2>5. CASE c = n - 1
    BY <2>1, <2>4, <2>5
  <2>6. CASE c < n - 1
    <3>1. Bound(c) < Bound(n - 1)
      BY <2>1, <2>2, <2>6
    <3>2. Bound(c) < Bound(n)
      BY <2>3, <2>4, <3>1
    <3> QED BY <2>1, <3>2
  <2> QED BY <2>2, <2>5, <2>6
<1> QED BY <1>1

(* and so never decrease.                                                  *)
LEMMA BoundsGrow ==
  \A k \in Nat, n \in Nat : k <= n => Bound(k) <= Bound(n)
<1> SUFFICES ASSUME NEW k \in Nat, NEW n \in Nat, k <= n PROVE Bound(k) <= Bound(n)
  OBVIOUS
<1>1. Bound(k) \in Nat /\ Bound(n) \in Nat
  BY BoundStep
<1>2. CASE k = n
  BY <1>1, <1>2
<1>3. CASE k < n
  BY <1>1, <1>3, BoundMono
<1> QED BY <1>2, <1>3

(* Every power of two from the smallest exponent on is a bound. *)
LEMMA BoundAtPower ==
  ASSUME NEW n \in Nat, FieldBits <= n
  PROVE  Bound((n - FieldBits + 1) * Mantissas) = 2 ^ n
<1>1. PICK e \in Nat : e = n - FieldBits
  BY Widths
<1>2. 0 \in 0 .. Mantissas - 1 /\ e + 1 \in Nat /\ MinAllocBits + e \in Nat
      /\ IntermediateBits \in Nat
  BY <1>1, Widths
<1>3. Bound((e + 1) * Mantissas + 0) = (0 + Mantissas) * Grain(e + 1)
  BY <1>2, BoundOf
<1>4. Grain(e + 1) = 2 ^ (MinAllocBits + e)
  BY <1>1 DEF Grain
<1>5. 2 ^ (IntermediateBits + (MinAllocBits + e)) = Mantissas * 2 ^ (MinAllocBits + e)
  BY <1>2, Pow2Add DEF Mantissas
<1>6. IntermediateBits + (MinAllocBits + e) = n
  BY <1>1, Widths
<1>7. (e + 1) * Mantissas + 0 = (e + 1) * Mantissas /\ 0 + Mantissas = Mantissas
  BY <1>1, Widths
<1> QED BY <1>1, <1>3, <1>4, <1>5, <1>6, <1>7

(* The greater of a number and 0.                                          *)
LEMMA MaxOrZero ==
  ASSUME NEW a \in Int
  PROVE  Max({a, 0}) = IF a > 0 THEN a ELSE 0
<1> DEFINE r == IF a > 0 THEN a ELSE 0
<1>1. r \in {a, 0} /\ \A y \in {a, 0} : r >= y
  OBVIOUS
<1>2. \A x \in {a, 0} : (\A y \in {a, 0} : x >= y) => x = r
  OBVIOUS
<1>3. (CHOOSE x \in {a, 0} : \A y \in {a, 0} : x >= y) = r
  BY <1>1, <1>2
<1> QED BY <1>3 DEF Max

(* What to_exp_mant computes of v + 1: the class between whose bounds v is. *)
LEMMA ExpMant ==
  ASSUME NEW v \in Nat, v + 1 < 2 ^ Bits
  PROVE  /\ to_exp_mant(v + 1) \in Nat
         /\ Bound(to_exp_mant(v + 1)) <= v /\ v < Bound(to_exp_mant(v + 1) + 1)
         /\ to_exp_mant(v + 1) < (Bits - FieldBits + 1) * Mantissas
<1>0. 2 ^ Bits \in Nat /\ 2 ^ FieldBits \in Nat /\ FieldBits < Bits
  BY Widths, Pow2Nat
<1>1. SizeT(v + 1 - 1) = v
  <2>1. v + 1 - 1 = v
    OBVIOUS
  <2> QED BY <1>0, <2>1, SizeTSame
<1> DEFINE Max0 == Max({Bits - countl_zero(v) - FieldBits, 0})
           Exp(e) == /\ e = Max0
                     /\ e <= Bits - FieldBits
                     /\ v < 2 ^ (FieldBits + e)
                     /\ e # 0 => 2 ^ (FieldBits + e - 1) <= v
<1>20. PICK e \in Nat : Exp(e)
  <2>1. CASE v = 0
    <3>1. Bits - countl_zero(v) - FieldBits = 0 - FieldBits /\ 0 - FieldBits \in Int
      BY <2>1, Widths DEF countl_zero
    <3>2. Max({0 - FieldBits, 0}) = 0
      BY <3>1, MaxOrZero, Widths
    <3>3. 2 ^ (FieldBits + 0) \in Nat \ {0}
      BY Widths, Pow2Pos
    <3>4. Max0 = 0
      BY <3>1, <3>2
    <3>5. 0 <= Bits - FieldBits /\ v < 2 ^ (FieldBits + 0)
      BY <2>1, <3>3, Widths
    <3>6. Exp(0)
      BY <3>4, <3>5
    <3> QED BY <3>6
  <2>2. CASE v # 0
    <3>1. PICK k \in 0 .. Bits - 1 : 2 ^ k <= v /\ v < 2 ^ (k + 1)
      <4>1. v < 2 ^ Bits
        BY <1>0
      <4> QED BY <2>2, <4>1, LeadingBit, Widths
    <3>2. countl_zero(v) = Bits - 1 - k
      BY <3>1, LeadingZeros
    <3>3. Bits - countl_zero(v) - FieldBits = k + 1 - FieldBits /\ k + 1 - FieldBits \in Int
          /\ k + 1 \in Nat /\ k + 1 <= Bits
      BY <3>1, <3>2, Widths
    <3>4. CASE k + 1 <= FieldBits
      <4>1. Max({k + 1 - FieldBits, 0}) = 0
        BY <3>3, <3>4, MaxOrZero, Widths
      <4>2. 2 ^ (k + 1) <= 2 ^ (FieldBits + 0)
        <5>1. FieldBits + 0 = FieldBits /\ FieldBits \in Nat
          BY Widths
        <5> QED BY <5>1, <3>3, <3>4, PowMono
      <4>3. v < 2 ^ (FieldBits + 0)
        <5>1. 2 ^ (k + 1) \in Nat /\ 2 ^ (FieldBits + 0) \in Nat
          BY <3>3, Widths, Pow2Nat
        <5> QED BY <5>1, <4>2, <3>1
      <4>4. Max0 = 0 /\ 0 <= Bits - FieldBits
        <5>1. Max0 = 0
          BY <3>3, <4>1
        <5> QED BY <5>1, Widths
      <4>5. Exp(0)
        BY <4>3, <4>4
      <4> QED BY <4>5
    <3>5. CASE FieldBits < k + 1
      <4>1. PICK x \in Nat : x = k + 1 - FieldBits /\ x # 0
        BY <3>3, <3>5, Widths
      <4>2. Max({k + 1 - FieldBits, 0}) = x
        BY <3>3, <4>1, MaxOrZero
      <4>3. FieldBits + x = k + 1 /\ FieldBits + x - 1 = k /\ x <= Bits - FieldBits
        BY <4>1, <3>3, Widths
      <4>4. Max0 = x
        BY <3>3, <4>1, <4>2
      <4>5. Exp(x)
        BY <3>1, <4>3, <4>4
      <4> QED BY <4>1, <4>5
    <3> HIDE DEF Exp
    <3>6. k + 1 <= FieldBits \/ FieldBits < k + 1
      BY <3>3, Widths
    <3> QED BY <3>4, <3>5, <3>6
  <2> QED BY <2>1, <2>2
<1>2. /\ e = Max({Bits - countl_zero(v) - FieldBits, 0})
      /\ e <= Bits - FieldBits
      /\ v < 2 ^ (FieldBits + e)
      /\ e # 0 => 2 ^ (FieldBits + e - 1) <= v
  BY <1>20
<1> HIDE DEF Max0, Exp
<1>3. PICK g \in Nat \ {0}, n \in Nat \ {0} : g = Grain(e) /\ n = Mantissas
  BY Widths
<1>4. PICK q \in Nat, r \in Nat : q = v \div g /\ r < g /\ v = q * g + r
  <2>1. g \in Nat /\ g > 0
    BY <1>3
  <2>2. v \div g \in Nat /\ (v % g) \in Nat /\ v % g < g /\ v = (v \div g) * g + (v % g)
    BY <2>1, QuotRem
  <2> QED BY <2>2
<1>5. PICK m \in 0 .. n - 1 : m = q % n /\ q = m + (IF e = 0 THEN 0 ELSE n)
  <2>1. CASE e = 0
    <3>1. v < n * g
      <4>1. 2 ^ (IntermediateBits + MinAllocBits) = 2 ^ IntermediateBits * 2 ^ MinAllocBits
        BY Widths, Pow2Add
      <4>2. FieldBits + e = IntermediateBits + MinAllocBits /\ MinAllocBits + 0 = MinAllocBits
        BY <2>1, Widths
      <4>3. g = 2 ^ MinAllocBits
        BY <1>3, <2>1, <4>2 DEF Grain
      <4>4. 2 ^ (FieldBits + e) = 2 ^ (IntermediateBits + MinAllocBits)
        BY <4>2
      <4>5. 2 ^ (FieldBits + e) = n * g
        BY <4>1, <4>3, <4>4, <1>3 DEF Mantissas
      <4> QED BY <4>5, <1>2, <1>3
    <3>2. q < n
      <4>1. ASSUME n < q PROVE FALSE
        <5>1. n * g + g <= q * g
          BY <1>3, <4>1, MultMono
        <5>2. PICK a \in Nat, b \in Nat : a = n * g /\ b = q * g
          BY <1>3
        <5> QED BY <5>1, <5>2, <3>1, <1>3, <1>4
      <4>2. ASSUME n = q PROVE FALSE
        BY <4>2, <3>1, <1>3, <1>4, SMTT(30)
      <4> QED BY <4>1, <4>2, <1>3
    <3>3. (0 * n + q) % n = q /\ 0 * n + q = q
      BY <1>3, <3>2, RemOfSum
    <3> QED BY <2>1, <3>2, <3>3
  <2>2. CASE e # 0
    <3>0. /\ e - 1 \in Nat /\ MinAllocBits + (e - 1) \in Nat /\ IntermediateBits \in Nat
          /\ FieldBits + e - 1 = IntermediateBits + (MinAllocBits + (e - 1))
          /\ FieldBits + e = (FieldBits + e - 1) + 1 /\ FieldBits + e - 1 \in Nat
      BY <2>2, Widths
    <3>1. g = 2 ^ (MinAllocBits + (e - 1))
      BY <1>3, <2>2 DEF Grain
    <3>2. 2 ^ (FieldBits + e - 1) = n * g
      <4>1. 2 ^ (IntermediateBits + (MinAllocBits + (e - 1)))
            = 2 ^ IntermediateBits * 2 ^ (MinAllocBits + (e - 1))
        BY <3>0, Pow2Add
      <4>2. 2 ^ (FieldBits + e - 1) = 2 ^ (IntermediateBits + (MinAllocBits + (e - 1)))
        BY <3>0
      <4> QED BY <4>1, <4>2, <3>1, <1>3 DEF Mantissas
    <3>3. 2 ^ (FieldBits + e) = 2 * 2 ^ (FieldBits + e - 1)
      BY <3>0, Pow2Succ
    <3>4. PICK a \in Nat, b \in Nat : a = n * g /\ b = q * g
      BY <1>3
    <3>5. a <= v /\ v < 2 * a
      <4>1. 2 ^ (FieldBits + e - 1) = a /\ 2 ^ (FieldBits + e) = 2 * a
        BY <3>2, <3>3, <3>4
      <4>2. v < 2 ^ (FieldBits + e) /\ 2 ^ (FieldBits + e - 1) <= v
        BY <2>2, <1>2
      <4> QED BY <4>1, <4>2
    <3>6. n <= q
      <4>1. ASSUME q < n PROVE FALSE
        <5>1. q * g + g <= n * g
          BY <4>1, <1>3, MultMono
        <5> QED BY <5>1, <3>4, <3>5, <1>3, <1>4
      <4> QED BY <4>1, <1>3
    <3>7. q < 2 * n
      <4>1. (2 * n) * g = 2 * a
        BY <1>3, <3>4
      <4>2. ASSUME 2 * n < q PROVE FALSE
        <5>1. (2 * n) * g + g <= q * g
          BY <4>2, <1>3, MultMono
        <5> QED BY <5>1, <4>1, <3>4, <3>5, <1>3, <1>4
      <4>3. ASSUME 2 * n = q PROVE FALSE
        BY <4>3, <4>1, <3>4, <3>5, <1>3, <1>4
      <4> QED BY <4>2, <4>3, <1>3
    <3>8. PICK m \in Nat : m = q - n
      BY <3>6, <1>3
    <3>9. (1 * n + m) % n = m /\ 1 * n + m = q /\ m < n
      <4>1. m < n /\ 1 * n + m = q
        BY <3>6, <3>7, <3>8, <1>3
      <4>2. (1 * n + m) % n = m
        BY <4>1, <1>3, RemOfSum
      <4> QED BY <4>1, <4>2
    <3> QED BY <2>2, <3>8, <3>9, <1>3
  <2> QED BY <2>1, <2>2
<1> DEFINE c == to_exp_mant(v + 1)
<1>6. c = e * Mantissas + m
  <2>1. MinAllocBits + e - (IF e = 0 THEN 0 ELSE 1) = MinAllocBits + (IF e = 0 THEN 0 ELSE e - 1)
    BY Widths
  <2>2. 2 ^ (MinAllocBits + e - (IF e = 0 THEN 0 ELSE 1)) = g
    BY <2>1, <1>3 DEF Grain
  <2>3. (v \div 2 ^ (MinAllocBits + e - (IF e = 0 THEN 0 ELSE 1))) % 2 ^ IntermediateBits = m
    BY <2>2, <1>3, <1>4, <1>5 DEF Mantissas
  <2> DEFINE H(x) == Max({Bits - countl_zero(x) - FieldBits, 0})
             M(x, y) == (x \div 2 ^ (MinAllocBits + y - (IF y = 0 THEN 0 ELSE 1)))
                        % 2 ^ IntermediateBits
             C(x, y) == y * 2 ^ IntermediateBits + M(x, y)
  <2>4. c = C(SizeT(v + 1 - 1), H(SizeT(v + 1 - 1)))
    BY DEF to_exp_mant
  <2>5. H(v) = e /\ M(v, e) = m
    BY <1>2, <2>3
  <2> HIDE DEF H, M
  <2>6. c = e * 2 ^ IntermediateBits + m
    BY <1>1, <2>4, <2>5
  <2> QED BY <2>6 DEF Mantissas
<1>7. c \in Nat /\ c < (Bits - FieldBits + 1) * Mantissas
  <2>1. PICK d \in Nat : d = Bits - FieldBits /\ e < d + 1
    <3>1. Bits - FieldBits \in Nat /\ e \in Nat /\ e <= Bits - FieldBits
      BY <1>2, Widths
    <3> QED BY <3>1
  <2>2. e * n + n <= (d + 1) * n
    BY <2>1, <1>3, MultMono
  <2>3. PICK a \in Nat, b \in Nat : a = e * n /\ b = (d + 1) * n
    BY <1>3
  <2>4. c = a + m
    BY <1>6, <1>3, <2>3
  <2>5. c < b
    BY <2>2, <2>3, <2>4, <1>5, <1>3
  <2> QED BY <2>1, <2>3, <2>4, <2>5, <1>3, <1>5
<1> HIDE DEF c
<1>8. m \in 0 .. Mantissas - 1
  BY <1>3, <1>5
<1>9. Bound(c) = q * g /\ c \div Mantissas = e
  BY <1>3, <1>5, <1>6, <1>8, BoundOf
<1>10. Bound(c + 1) = Bound(c) + g
  BY <1>3, <1>7, <1>9, BoundStep
<1>11. Bound(c) <= v /\ v < Bound(c + 1)
  <2>1. PICK a \in Nat : a = q * g
    BY <1>3
  <2> QED BY <2>1, <1>3, <1>4, <1>9, <1>10
<1> QED BY <1>7, <1>11 DEF c

-----------------------------------------------------------------------------
(* The classes of the code. *)
LEMMA SizeClass ==
  ASSUME CountersFit, NEW v \in Nat, v + 1 < 2 ^ Bits
  PROVE  /\ size_to_sizeclass(v + 1) \in Nat /\ size_to_sizeclass(v + 1) < 256
         /\ Bound(size_to_sizeclass(v + 1)) <= v /\ v < Bound(size_to_sizeclass(v + 1) + 1)
<1>1. PICK c \in Nat : /\ c = to_exp_mant(v + 1)
                       /\ Bound(c) <= v /\ v < Bound(c + 1)
                       /\ c < (Bits - FieldBits + 1) * Mantissas
  BY ExpMant
<1>2. PICK a \in Nat : a = (Bits - FieldBits + 1) * Mantissas
  <2>1. Bits - FieldBits + 1 \in Nat
    BY Widths
  <2> QED BY <2>1, Widths
<1>3. a <= 256
  BY <1>2, PowEight DEF CountersFit, Mantissas
<1>4. c < 256
  BY <1>1, <1>2, <1>3
<1> QED BY <1>1, <1>4, Uint8Same DEF size_to_sizeclass

(* The class of v + 1 is the only one between whose bounds v is. *)
LEMMA ClassUnique ==
  ASSUME NEW v \in Nat, NEW c \in Nat, NEW d \in Nat,
         Bound(c) <= v, v < Bound(c + 1), Bound(d) <= v, v < Bound(d + 1)
  PROVE  c = d
<1>1. \A n \in Nat : Bound(n) \in Nat
  BY BoundStep
<1>2. ASSUME NEW m \in Nat, NEW n \in Nat, m < n, Bound(n) <= v, v < Bound(m + 1) PROVE FALSE
  <2>1. CASE m + 1 = n
    BY <2>1, <1>1, <1>2
  <2>2. CASE m + 1 < n
    <3>1. Bound(m + 1) < Bound(n)
      BY <1>2, <2>2, BoundMono
    <3> QED BY <3>1, <1>1, <1>2
  <2> QED BY <2>1, <2>2, <1>2
<1> QED BY <1>2

(* A power of two is the last size of its class.                           *)
LEMMA ClassOfPower ==
  ASSUME CountersFit, NEW n \in Nat, FieldBits <= n, n < Bits
  PROVE  /\ size_to_sizeclass(2 ^ n) \in Nat
         /\ size_to_sizeclass(2 ^ n) + 1 = (n - FieldBits + 1) * Mantissas
         /\ Bound(size_to_sizeclass(2 ^ n) + 1) = 2 ^ n
<1>1. PICK v \in Nat : v + 1 = 2 ^ n
  <2>1. 2 ^ n \in Nat \ {0}
    BY Pow2Pos
  <2>2. 2 ^ n - 1 \in Nat /\ 2 ^ n - 1 + 1 = 2 ^ n
    BY <2>1
  <2> QED BY <2>2
<1>2. v + 1 < 2 ^ Bits
  <2>1. 2 * 2 ^ n <= 2 ^ Bits /\ 2 ^ Bits \in Nat
    BY Widths, Pow2Mono, Pow2Nat
  <2> QED BY <2>1, <1>1
<1>3. PICK c \in Nat : c = size_to_sizeclass(v + 1) /\ Bound(c) <= v /\ v < Bound(c + 1)
  BY <1>2, SizeClass
<1>4. PICK d \in Nat : d + 1 = (n - FieldBits + 1) * Mantissas
  <2>1. n - FieldBits + 1 \in Nat \ {0} /\ Mantissas \in Nat \ {0}
    BY Widths
  <2>2. PICK a \in Nat \ {0}, b \in Nat \ {0} : a = n - FieldBits + 1 /\ b = Mantissas
    BY <2>1
  <2>3. (a - 1) * b + b = a * b /\ (a - 1) * b \in Nat
    BY <2>2
  <2>4. PICK e \in Nat, f \in Nat : e = (a - 1) * b /\ f = a * b /\ e + b = f
    BY <2>3, <2>2
  <2>5. f - 1 \in Nat /\ (f - 1) + 1 = f
    BY <2>2, <2>4
  <2> QED BY <2>2, <2>4, <2>5
<1>5. Bound(d + 1) = v + 1
  BY <1>1, <1>4, BoundAtPower
<1>6. Bound(d) <= v /\ v < Bound(d + 1)
  <2>1. Bound(d) < Bound(d + 1) /\ Bound(d) \in Nat
    BY BoundStep
  <2> QED BY <2>1, <1>5
<1>7. c = d
  BY <1>3, <1>6, ClassUnique
<1> QED BY <1>1, <1>3, <1>4, <1>5, <1>7

SlabClasses == DOMAIN sizeclass_to_size

(* Where medium and large sizes begin among the classes.                   *)
LEMMA Thresholds ==
  ASSUME CountersFit
  PROVE  /\ NumSizeclasses \in Nat /\ size_to_sizeclass(MediumThreshold) \in Nat
         /\ size_to_sizeclass(MediumThreshold) < NumSizeclasses
         /\ NumSizeclasses + 1 = (LargeThresholdBits - FieldBits + 1) * Mantissas
         /\ size_to_sizeclass(MediumThreshold) + 1 = (MediumThresholdBits - FieldBits + 1) * Mantissas
         /\ Bound(NumSizeclasses + 1) = LargeThreshold
         /\ Bound(size_to_sizeclass(MediumThreshold) + 1) = MediumThreshold
         /\ SlabClasses = 0 .. NumSizeclasses - 1
         /\ \A c \in SlabClasses : sizeclass_to_size[c] = Bound(c + 1)
<1>1. PICK l \in Nat : /\ l = NumSizeclasses /\ Bound(l + 1) = LargeThreshold
                       /\ l + 1 = (LargeThresholdBits - FieldBits + 1) * Mantissas
  <2>1. LargeThresholdBits \in Nat /\ FieldBits <= LargeThresholdBits /\ LargeThresholdBits < Bits
    BY Widths
  <2> QED BY <2>1, ClassOfPower DEF NumSizeclasses, LargeThreshold, one_at_bit
<1>2. PICK m \in Nat : /\ m = size_to_sizeclass(MediumThreshold) /\ Bound(m + 1) = MediumThreshold
                       /\ m + 1 = (MediumThresholdBits - FieldBits + 1) * Mantissas
  <2>1. /\ MediumThresholdBits \in Nat /\ FieldBits <= MediumThresholdBits
        /\ MediumThresholdBits < Bits
    BY Widths
  <2> QED BY <2>1, ClassOfPower DEF MediumThreshold, one_at_bit
<1>3. m < l
  <2>1. MediumThreshold < LargeThreshold
    <3>1. /\ 2 * 2 ^ MediumThresholdBits <= 2 ^ LargeThresholdBits
          /\ 2 ^ MediumThresholdBits \in Nat \ {0} /\ 2 ^ LargeThresholdBits \in Nat
      BY Widths, Pow2Mono, Pow2Pos
    <3> QED BY <3>1 DEF MediumThreshold, LargeThreshold, one_at_bit
  <2>2. Bound(m + 1) \in Nat /\ Bound(l + 1) \in Nat
    BY BoundStep
  <2>3. ASSUME l < m PROVE FALSE
    <3>1. Bound(l + 1) < Bound(m + 1)
      BY <2>3, BoundMono
    <3> QED BY <3>1, <2>1, <2>2, <1>1, <1>2
  <2>4. l # m
    BY <2>1, <2>2, <1>1, <1>2
  <2> QED BY <2>3, <2>4
<1>4. SlabClasses = 0 .. NumSizeclasses - 1
  BY <1>1, <1>2, <1>3 DEF SlabClasses, sizeclass_to_size, SmallClasses, MediumClasses
<1>5. \A c \in Nat : from_exp_mant(c) = Bound(c + 1)
  <2> TAKE c \in Nat
  <2>1. PICK e \in Nat, m1 \in 0 .. Mantissas - 1 :
          c + 1 = e * Mantissas + m1 /\ e = (c + 1) \div Mantissas
    <3>1. c + 1 \in Nat
      OBVIOUS
    <3> QED BY <3>1, Exponent
  <2>2. e - (IF e = 0 THEN 0 ELSE 1) + MinAllocBits = MinAllocBits + (IF e = 0 THEN 0 ELSE e - 1)
    BY Widths
  <2>3. 2 ^ (e - (IF e = 0 THEN 0 ELSE 1) + MinAllocBits) = Grain(e)
    BY <2>2 DEF Grain
  <2>4. (IF e = 0 THEN 0 ELSE 1) * Mantissas = (IF e = 0 THEN 0 ELSE Mantissas)
    BY Widths
  <2> DEFINE X(x, y) == (x + (IF y = 0 THEN 0 ELSE 1) * Mantissas)
                        * 2 ^ (y - (IF y = 0 THEN 0 ELSE 1) + MinAllocBits)
             Y(x, y) == (x + (IF y = 0 THEN 0 ELSE Mantissas)) * Grain(y)
  <2>5. /\ from_exp_mant(c) = X((c + 1) % Mantissas, (c + 1) \div Mantissas)
        /\ Bound(c + 1) = Y((c + 1) % Mantissas, (c + 1) \div Mantissas)
    BY DEF from_exp_mant, Bound, Mantissas
  <2>6. \A x : X(x, e) = Y(x, e)
    BY <2>3, <2>4
  <2> HIDE DEF X, Y
  <2> QED BY <2>1, <2>5, <2>6
<1>6. \A c \in SlabClasses : sizeclass_to_size[c] = Bound(c + 1)
  <2>1. \A c \in SlabClasses : sizeclass_to_size[c] = from_exp_mant(c) /\ c \in Nat
    BY <1>1, <1>4 DEF SlabClasses, sizeclass_to_size
  <2> QED BY <2>1, <1>5
<1> QED BY <1>1, <1>2, <1>3, <1>4, <1>6

(* The largest slab class leaves a page of a chunk, and is more than half  *)
(* of it.                                                                  *)
LEMMA LargestSlabClass ==
  ASSUME CountersFit
  PROVE  /\ Bound(NumSizeclasses) \in Nat
         /\ Bound(NumSizeclasses) + PageSize <= LargeThreshold
         /\ LargeThreshold <= 2 * Bound(NumSizeclasses)
<1>1. PICK e \in Nat \ {0}, l \in Nat, n \in Nat \ {0} :
        /\ e = LargeThresholdBits - FieldBits /\ l = NumSizeclasses /\ n = Mantissas
        /\ l + 1 = (e + 1) * n
  <2>1. PICK e \in Nat \ {0}, n \in Nat \ {0} :
          e = LargeThresholdBits - FieldBits /\ n = Mantissas
    BY Widths
  <2>2. NumSizeclasses \in Nat /\ NumSizeclasses + 1 = (e + 1) * n
    BY <2>1, Thresholds
  <2> QED BY <2>1, <2>2
<1>2. l \div Mantissas = e
  <2>1. (e + 1) * n = e * n + n /\ e * n \in Nat
    BY <1>1
  <2>2. n - 1 \in 0 .. Mantissas - 1 /\ l = e * Mantissas + (n - 1)
    BY <1>1, <2>1
  <2> QED BY <2>2, BoundOf
<1>3. Bound(l) \in Nat /\ Bound(l + 1) = Bound(l) + Grain(e) /\ Bound(l + 1) = LargeThreshold
  BY <1>1, <1>2, BoundStep, Thresholds
<1>4. PICK x \in Nat : /\ x = MinAllocBits + (e - 1) /\ PageBits <= x
                       /\ x + 1 <= LargeThresholdBits
  <2>1. MinAllocBits + (e - 1) \in Nat /\ MinAllocBits + (e - 1) + IntermediateBits + 1 = LargeThresholdBits
    BY <1>1, Widths
  <2> QED BY <2>1, Widths
<1>5. /\ Grain(e) = 2 ^ x /\ PageSize = 2 ^ PageBits /\ LargeThreshold = 2 ^ LargeThresholdBits
      /\ PageBits \in Nat /\ LargeThresholdBits \in Nat
  BY <1>1, <1>4, Widths DEF Grain, PageSize, LargeThreshold, one_at_bit
<1>6. 2 ^ PageBits <= 2 ^ x
  BY <1>4, <1>5, PowMono
<1>7. 2 * 2 ^ x <= 2 ^ LargeThresholdBits
  BY <1>4, <1>5, Pow2Mono
<1>8. 2 ^ PageBits \in Nat /\ 2 ^ x \in Nat /\ 2 ^ LargeThresholdBits \in Nat
  BY <1>4, <1>5, Pow2Nat
<1>9. PICK p \in Nat, q \in Nat, r \in Nat, b \in Nat :
        /\ p = PageSize /\ q = Grain(e) /\ r = LargeThreshold /\ b = Bound(l)
        /\ p <= q /\ 2 * q <= r /\ r = b + q
  BY <1>3, <1>5, <1>6, <1>7, <1>8
<1>10. b + p <= r /\ r <= 2 * b
  BY <1>9
<1> QED BY <1>1, <1>9, <1>10

(* The sizes of slab classes: at least the least, below the large          *)
(* threshold, small ones below the medium threshold.                       *)
LEMMA SlabSizes ==
  ASSUME CountersFit, NEW c \in SlabClasses
  PROVE  /\ c \in Nat /\ sizeclass_to_size[c] \in Nat
         /\ MinAllocSize \in Nat \ {0} /\ MinAllocSize <= sizeclass_to_size[c]
         /\ sizeclass_to_size[c] <= Bound(NumSizeclasses)
         /\ c < size_to_sizeclass(MediumThreshold) => sizeclass_to_size[c] < MediumThreshold
         /\ size_to_sizeclass(MediumThreshold) <= c => MediumThreshold <= sizeclass_to_size[c]
<1>1. PICK l \in Nat, m \in Nat : /\ l = NumSizeclasses /\ m = size_to_sizeclass(MediumThreshold)
                                  /\ c \in 0 .. l - 1 /\ Bound(m + 1) = MediumThreshold
                                  /\ sizeclass_to_size[c] = Bound(c + 1)
  BY Thresholds
<1>2. \A n \in Nat : Bound(n) \in Nat
  BY BoundStep
<1>3. \A k \in Nat, n \in Nat : k <= n => Bound(k) <= Bound(n)
  BY BoundsGrow
<1>4. MinAllocSize \in Nat \ {0} /\ Bound(1) = MinAllocSize
  <2>1. MinAllocSize \in Nat \ {0} /\ Grain(0) = MinAllocSize
    <3>1. MinAllocBits + 0 = MinAllocBits
      BY Widths
    <3> QED BY <3>1, Widths DEF Grain, MinAllocSize, one_at_bit
  <2>2. 0 \in 0 .. Mantissas - 1 /\ 0 * Mantissas + 0 = 0
    BY Widths
  <2>3. Bound(0) = (0 + 0) * Grain(0) /\ 0 \div Mantissas = 0
    BY <2>2, BoundOf
  <2>4. Bound(0 + 1) = Bound(0) + Grain(0)
    BY <2>3, BoundStep
  <2> QED BY <2>1, <2>3, <2>4
<1>5. Bound(1) <= Bound(c + 1) /\ Bound(c + 1) <= Bound(l)
  <2>1. 1 <= c + 1 /\ c + 1 <= l /\ c + 1 \in Nat
    BY <1>1
  <2> QED BY <2>1, <1>3
<1>6. ASSUME c < m PROVE Bound(c + 1) < Bound(m + 1)
  <2>1. c + 1 \in Nat /\ m + 1 \in Nat /\ c + 1 < m + 1
    BY <1>1, <1>6
  <2> QED BY <2>1, BoundMono
<1>7. ASSUME m <= c PROVE Bound(m + 1) <= Bound(c + 1)
  BY <1>1, <1>3, <1>7
<1> QED BY <1>1, <1>2, <1>4, <1>5, <1>6, <1>7

(* A size has a slab class if and only if it is at most the largest one's, *)
(* and then its class is the first that is big enough.                     *)
LEMMA FirstFit ==
  ASSUME CountersFit, NEW v \in Nat, v + 1 < 2 ^ Bits
  PROVE  /\ size_to_sizeclass(v + 1) \in Nat
         /\ size_to_sizeclass(v + 1) \in SlabClasses =>
              /\ v < sizeclass_to_size[size_to_sizeclass(v + 1)]
              /\ \A d \in SlabClasses :
                   v < sizeclass_to_size[d] =>
                     sizeclass_to_size[size_to_sizeclass(v + 1)] <= sizeclass_to_size[d]
         /\ size_to_sizeclass(v + 1) \notin SlabClasses => Bound(NumSizeclasses) <= v
<1>1. PICK c \in Nat : c = size_to_sizeclass(v + 1) /\ Bound(c) <= v /\ v < Bound(c + 1)
  BY SizeClass
<1>2. \A n \in Nat : Bound(n) \in Nat
  BY BoundStep
<1>3. \A k \in Nat, n \in Nat : k <= n => Bound(k) <= Bound(n)
  BY BoundsGrow
<1>4. /\ NumSizeclasses \in Nat /\ SlabClasses = 0 .. NumSizeclasses - 1
      /\ \A d \in SlabClasses : sizeclass_to_size[d] = Bound(d + 1)
  BY Thresholds
<1>5. ASSUME NEW d \in Nat, v < Bound(d + 1) PROVE Bound(c + 1) <= Bound(d + 1)
  <2>1. ~(d + 1 <= c)
    <3>1. ASSUME d + 1 <= c PROVE Bound(d + 1) <= Bound(c)
      BY <3>1, <1>3
    <3> QED BY <3>1, <1>1, <1>2, <1>5
  <2> QED BY <2>1, <1>3
<1>6. ASSUME c \in SlabClasses
      PROVE  /\ v < sizeclass_to_size[c]
             /\ \A d \in SlabClasses : v < sizeclass_to_size[d]
                                     => sizeclass_to_size[c] <= sizeclass_to_size[d]
  BY <1>1, <1>4, <1>5, <1>6
<1>7. ASSUME c \notin SlabClasses PROVE Bound(NumSizeclasses) <= v
  <2>1. NumSizeclasses <= c
    BY <1>4, <1>7
  <2>2. Bound(NumSizeclasses) <= Bound(c)
    BY <2>1, <1>3, <1>4
  <2> QED BY <2>2, <1>1, <1>2, <1>4
<1> QED BY <1>1, <1>6, <1>7

-----------------------------------------------------------------------------
(* Less than the grain of its class is wasted of a slab object. *)
LEMMA SlabWaste ==
  ASSUME CountersFit, NEW v \in Nat, v + 1 < 2 ^ Bits,
         NEW c \in SlabClasses, c = size_to_sizeclass(v + 1)
  PROVE  LET waste == sizeclass_to_size[c] - (v + 1)
         IN  waste < MinAllocSize \/ (2 ^ IntermediateBits + 1) * waste < sizeclass_to_size[c]
<1>1. /\ c \in Nat /\ Bound(c) \in Nat /\ Bound(c) <= v /\ v < Bound(c + 1)
      /\ sizeclass_to_size[c] = Bound(c + 1)
  BY SizeClass, Thresholds, SlabSizes, BoundStep
<1>2. PICK e \in Nat, m \in 0 .. Mantissas - 1 : c = e * Mantissas + m /\ e = c \div Mantissas
  BY <1>1, Exponent
<1>3. PICK g \in Nat \ {0}, n \in Nat \ {0} : g = Grain(e) /\ n = Mantissas
  BY Widths
<1>4. Bound(c + 1) = Bound(c) + g /\ (e # 0 => n * g <= Bound(c))
  BY <1>1, <1>2, <1>3, BoundStep
<1>5. PICK w \in Nat : w = Bound(c + 1) - (v + 1) /\ w < g
  <2>1. Bound(c + 1) - (v + 1) \in Nat /\ Bound(c + 1) - (v + 1) < g
    BY <1>1, <1>3, <1>4
  <2> QED BY <2>1
<1>6. CASE e = 0
  <2>1. g = MinAllocSize
    <3>1. MinAllocBits + 0 = MinAllocBits
      BY Widths
    <3> QED BY <1>3, <1>6, <3>1 DEF Grain, MinAllocSize, one_at_bit
  <2> QED BY <2>1, <1>1, <1>5
<1>7. CASE e # 0
  <2>1. w * (n + 1) + (n + 1) <= g * (n + 1)
    <3>1. n + 1 \in Nat /\ n + 1 > 0
      BY <1>3
    <3> QED BY <3>1, <1>3, <1>5, MultMono
  <2>2. PICK a \in Nat, b \in Nat : a = w * (n + 1) /\ b = n * g
    <3>1. w * (n + 1) \in Nat /\ n * g \in Nat
      BY <1>3, <1>5
    <3> QED BY <3>1
  <2>3. (n + 1) * w = a /\ g * (n + 1) = b + g
    BY <2>2, <1>3, <1>5
  <2>4. a < Bound(c + 1)
    BY <2>1, <2>2, <2>3, <1>1, <1>3, <1>4, <1>7
  <2>5. (2 ^ IntermediateBits + 1) * w < Bound(c + 1)
    BY <2>2, <2>4, <1>3 DEF Mantissas
  <2> QED BY <2>5, <1>1, <1>5
<1> QED BY <1>6, <1>7

(* As many objects as fit: how many there can be. *)
LEMMA SlotsFit ==
  ASSUME NEW room \in Nat, NEW s \in Nat \ {0}, s <= room,
         NEW u \in Nat, u <= s, NEW b \in Nat, room < b * u
  PROVE  /\ room \div s \in Nat \ {0} /\ room \div s < b
         /\ (room \div s) * s <= room /\ room < (room \div s + 1) * s
<1>1. PICK q \in Nat, r \in Nat : q = room \div s /\ r < s /\ room = q * s + r
  <2>1. s \in Nat /\ s > 0
    OBVIOUS
  <2> QED BY <2>1, QuotRem
<1>2. PICK a \in Nat : a = q * s
  OBVIOUS
<1>3. q # 0
  <2>1. ASSUME q = 0 PROVE FALSE
    BY <2>1, <1>1
  <2> QED BY <2>1
<1>4. (q + 1) * s = a + s
  BY <1>2
<1>5. q < b
  <2>1. ASSUME b <= q PROVE FALSE
    <3>1. PICK d \in Nat, k \in Nat : q = b + d /\ s = u + k
      <4>1. q - b \in Nat /\ s - u \in Nat /\ q = b + (q - b) /\ s = u + (s - u)
        BY <2>1
      <4> QED BY <4>1
    <3>2. (b + d) * (u + k) = b * u + b * k + d * u + d * k
      BY <3>1
    <3>3. b * u \in Nat /\ b * k \in Nat /\ d * u \in Nat /\ d * k \in Nat
      BY <3>1
    <3>4. b * u <= q * s
      BY <3>1, <3>2, <3>3
    <3> QED BY <3>3, <3>4, <1>1, <1>2
  <2> QED BY <2>1, <1>1
<1> QED BY <1>1, <1>2, <1>3, <1>4, <1>5

(* A number that fits in 16 bits is kept by the conversion.                *)
LEMMA Uint16Same ==
  ASSUME NEW x \in Nat, x < 2 ^ 16
  PROVE  Uint16(x) = x
<1>1. 2 ^ 16 \in Nat /\ 2 ^ 16 > 0
  BY Pow2Pos
<1>2. (0 * 2 ^ 16 + x) % 2 ^ 16 = x
  BY <1>1, RemOfSum
<1>3. 0 * 2 ^ 16 + x = x
  BY <1>1
<1> QED BY <1>2, <1>3 DEF Uint16

(* The narrow counter of a small slab holds as many objects as fit in it,  *)
(* and at least one.                                                       *)
LEMMA SmallSlots ==
  ASSUME CountersFit, NEW c \in SmallClasses
  PROVE  /\ small_slab_slots[c] \in 1 .. 2 ^ 16 - 1
         /\ small_slab_slots[c] * sizeclass_to_size[c] <= MediumThreshold
         /\ MediumThreshold < (small_slab_slots[c] + 1) * sizeclass_to_size[c]
<1>1. c \in SlabClasses /\ c < size_to_sizeclass(MediumThreshold)
  BY Thresholds DEF SmallClasses
<1>2. PICK s \in Nat \ {0}, u \in Nat \ {0} :
        s = sizeclass_to_size[c] /\ u = MinAllocSize /\ u <= s /\ s < MediumThreshold
  BY <1>1, SlabSizes
<1>3. PICK x \in Nat : x = MediumThresholdBits - MinAllocBits /\ x < 16
  BY Widths DEF CountersFit
<1>4. MediumThreshold = 2 ^ x * u /\ 2 ^ x \in Nat
  <2>1. x + MinAllocBits = MediumThresholdBits /\ MinAllocBits \in Nat
    BY <1>3, Widths
  <2>2. 2 ^ (x + MinAllocBits) = 2 ^ x * 2 ^ MinAllocBits
    BY <2>1, Pow2Add
  <2> QED BY <2>1, <2>2, <1>2, Pow2Nat DEF MediumThreshold, MinAllocSize, one_at_bit
<1>5. 2 * 2 ^ x <= 2 ^ 16 /\ 2 ^ 16 \in Nat
  BY <1>3, Pow2Mono, Pow2Nat
<1>6. PICK p \in Nat, b \in Nat, room \in Nat :
        p = 2 ^ x /\ b = 2 ^ 16 /\ room = MediumThreshold /\ room = p * u /\ 2 * p <= b
  BY <1>4, <1>5
<1>7. room < b * u
  <2>1. PICK d \in Nat \ {0} : b = p + d
    <3>1. p # 0
      BY <1>3, <1>6, Pow2Pos
    <3>2. b - p \in Nat \ {0} /\ b = p + (b - p)
      BY <3>1, <1>6
    <3> QED BY <3>2
  <2>2. (p + d) * u = p * u + d * u /\ p * u \in Nat /\ d * u \in Nat \ {0}
    BY <1>2, <2>1
  <2> QED BY <2>1, <2>2, <1>6
<1>8. /\ room \div s \in Nat \ {0} /\ room \div s < b
      /\ (room \div s) * s <= room /\ room < (room \div s + 1) * s
  <2>1. s <= room
    BY <1>2, <1>6
  <2> QED BY <2>1, <1>2, <1>6, <1>7, SlotsFit
<1>9. small_slab_slots[c] = room \div s
  <2>1. small_slab_slots[c] = Uint16(room \div s)
    BY <1>2, <1>6 DEF small_slab_slots
  <2> QED BY <2>1, <1>6, <1>8, Uint16Same
<1>10. room \div s \in 1 .. 2 ^ 16 - 1
  BY <1>6, <1>8
<1> QED BY <1>2, <1>6, <1>8, <1>9, <1>10

(* The 8 bits for a medium slab hold as many objects as fit beside its     *)
(* header, and at least one.                                               *)
LEMMA MediumSlots ==
  ASSUME CountersFit, NEW c \in MediumClasses
  PROVE  /\ medium_slab_slots[c] \in 1 .. 255
         /\ medium_slab_slots[c] * sizeclass_to_size[c] <= LargeThreshold - PageSize
         /\ LargeThreshold - PageSize < (medium_slab_slots[c] + 1) * sizeclass_to_size[c]
<1>1. c \in SlabClasses /\ size_to_sizeclass(MediumThreshold) <= c
  BY Thresholds DEF MediumClasses
<1>2. PICK t \in Nat, u \in Nat, p \in Nat \ {0} :
        t = LargeThreshold /\ u = MediumThreshold /\ p = PageSize
  <2>1. LargeThreshold \in Nat /\ MediumThreshold \in Nat /\ PageSize \in Nat \ {0}
    BY Widths, Pow2Pos DEF LargeThreshold, MediumThreshold, PageSize, one_at_bit
  <2> QED BY <2>1
<1>3. PICK s \in Nat \ {0} : s = sizeclass_to_size[c] /\ u <= s /\ s + p <= t
  <2>1. PICK n \in Nat : n = Bound(NumSizeclasses) /\ n + p <= t
    BY <1>2, LargestSlabClass
  <2>2. sizeclass_to_size[c] \in Nat \ {0} /\ u <= sizeclass_to_size[c] /\ sizeclass_to_size[c] <= n
    BY <1>1, <1>2, <2>1, SlabSizes
  <2> QED BY <1>2, <2>1, <2>2
<1>4. t <= 256 * u
  <2>1. PICK x \in Nat : x = LargeThresholdBits - MediumThresholdBits /\ x <= 8
    BY Widths DEF CountersFit
  <2>2. x + MediumThresholdBits = LargeThresholdBits /\ MediumThresholdBits \in Nat
    BY <2>1, Widths
  <2>3. 2 ^ (x + MediumThresholdBits) = 2 ^ x * 2 ^ MediumThresholdBits
    BY <2>2, Pow2Add
  <2>4. t = 2 ^ x * u
    BY <1>2, <2>2, <2>3 DEF LargeThreshold, MediumThreshold, one_at_bit
  <2>5. 2 ^ x <= 256 /\ 2 ^ x \in Nat
    <3>1. 2 ^ x <= 2 ^ 8
      BY <2>1, PowMono
    <3> QED BY <3>1, PowEight, Pow2Nat
  <2>6. PICK y \in Nat, z \in Nat : y = 2 ^ x /\ y + z = 256
    <3>1. 256 - 2 ^ x \in Nat /\ 2 ^ x + (256 - 2 ^ x) = 256
      BY <2>5
    <3> QED BY <2>5, <3>1
  <2>7. (y + z) * u = y * u + z * u /\ y * u \in Nat /\ z * u \in Nat
    BY <1>2, <2>6
  <2> QED BY <2>4, <2>6, <2>7
<1>5. PICK room \in Nat : room = t - p /\ s <= room /\ room < 256 * u
  <2>1. t - p \in Nat /\ s <= t - p /\ t - p < 256 * u
    BY <1>2, <1>3, <1>4
  <2> QED BY <2>1
<1>6. /\ room \div s \in Nat \ {0} /\ room \div s < 256
      /\ (room \div s) * s <= room /\ room < (room \div s + 1) * s
  BY <1>2, <1>3, <1>5, SlotsFit
<1>7. medium_slab_slots[c] = room \div s
  <2>1. medium_slab_slots[c] = Uint8(room \div s)
    BY <1>2, <1>3, <1>5 DEF medium_slab_slots
  <2> QED BY <2>1, <1>6, Uint8Same
<1>8. room \div s \in 1 .. 255
  BY <1>6
<1> QED BY <1>2, <1>3, <1>5, <1>6, <1>7, <1>8

(* The sizes of medium classes are whole pages, and so are the addresses   *)
(* that are multiples of the alignment.                                    *)
LEMMA PowDivides ==
  ASSUME NEW m \in Nat, NEW n \in Nat, m <= n, NEW x \in Nat
  PROVE  (x * 2 ^ n) % 2 ^ m = 0
<1>1. PICK d \in Nat : n = d + m
  <2>1. n - m \in Nat /\ n = (n - m) + m
    OBVIOUS
  <2> QED BY <2>1
<1>2. 2 ^ n = 2 ^ d * 2 ^ m
  BY <1>1, Pow2Add
<1>3. PICK p \in Nat \ {0}, q \in Nat : p = 2 ^ m /\ q = 2 ^ d
  BY Pow2Pos, Pow2Nat
<1>4. PICK y \in Nat : y = x * q
  BY <1>3
<1>5. x * (q * p) = y * p + 0
  <2>1. x * (q * p) = (x * q) * p
    BY <1>3
  <2> QED BY <2>1, <1>3, <1>4
<1>6. (y * p + 0) % p = 0
  BY <1>3, <1>4, RemOfSum
<1>7. (x * (q * p)) % p = 0
  BY <1>5, <1>6
<1> QED BY <1>2, <1>3, <1>7

(* Medium objects and their alignments are whole pages.                    *)
LEMMA WholePages ==
  ASSUME CountersFit, NEW c \in MediumClasses
  PROVE  sizeclass_to_size[c] % PageSize = 0 /\ sizeclass_to_alignment[c] % PageSize = 0
<1>1. c \in SlabClasses /\ c \in Nat /\ size_to_sizeclass(MediumThreshold) <= c
  BY Thresholds, SlabSizes DEF MediumClasses
<1>2. PageBits \in Nat /\ PageBits < Bits /\ PageSize = 2 ^ PageBits /\ Bits \in Nat
  BY Widths DEF PageSize, one_at_bit
<1>3. PICK s \in Nat : s = sizeclass_to_size[c] /\ s = Bound(c + 1)
  BY <1>1, SlabSizes, Thresholds
<1>4. s % PageSize = 0
  <2>1. PICK e \in Nat, m \in 0 .. Mantissas - 1 :
          c + 1 = e * Mantissas + m /\ e = (c + 1) \div Mantissas
    <3>1. c + 1 \in Nat
      BY <1>1
    <3> QED BY <3>1, Exponent
  <2>2. PICK f \in Nat \ {0}, n \in Nat \ {0} :
          f = MediumThresholdBits - FieldBits + 1 /\ n = Mantissas
    BY Widths
  <2>3. f <= e
    <3>1. f * n <= c + 1 /\ f * n \in Nat
      BY <1>1, <2>2, Thresholds
    <3>2. f * n + 0 = f * n /\ (f * n + 0) \div n = f
      BY <2>2, <3>1, RemOfSum
    <3>3. (f * n) \div n <= (c + 1) \div n
      BY <1>1, <2>2, <3>1, QuotMono
    <3> QED BY <2>1, <2>2, <3>2, <3>3
  <2>4. PICK x \in Nat : x = MinAllocBits + (e - 1) /\ PageBits <= x
    <3>1. MinAllocBits + (e - 1) \in Nat /\ PageBits <= MinAllocBits + (e - 1)
      BY <2>2, <2>3, Widths
    <3> QED BY <3>1
  <2>5. Grain(e) = 2 ^ x
    BY <2>2, <2>3, <2>4 DEF Grain
  <2>6. PICK y \in Nat : s = y * 2 ^ x
    <3>1. m + (IF e = 0 THEN 0 ELSE Mantissas) \in Nat
      BY Widths
    <3> QED BY <3>1, <1>3, <2>1, <2>5, BoundOf
  <2> QED BY <1>2, <2>4, <2>6, PowDivides
<1>5. sizeclass_to_alignment[c] % PageSize = 0
  <2> DEFINE N == {n \in 0 .. Bits - 1 : s % 2 ^ n = 0}
             f == [n \in N |-> 2 ^ n]
  <2>1. IsFiniteSet(N) /\ N \subseteq Nat /\ PageBits \in N
    <3>1. IsFiniteSet(0 .. Bits - 1)
      BY <1>2, FS_Interval
    <3>2. N \subseteq 0 .. Bits - 1 /\ 0 .. Bits - 1 \subseteq Nat /\ PageBits \in N
      BY <1>2, <1>4
    <3> HIDE DEF N
    <3>3. IsFiniteSet(N)
      BY <3>1, <3>2, FS_Subset
    <3> QED BY <3>2, <3>3
  <2> HIDE DEF N
  <2>2. {2 ^ n : n \in N} = {f[n] : n \in N}
    OBVIOUS
  <2>3. IsFiniteSet({2 ^ n : n \in N})
    <3> HIDE DEF f
    <3> QED BY <2>1, <2>2, FiniteImage
  <2>4. {2 ^ n : n \in N} \in SUBSET Nat /\ 2 ^ PageBits \in {2 ^ n : n \in N}
    BY <2>1, Pow2Nat
  <2>5. /\ Max({2 ^ n : n \in N}) \in {2 ^ n : n \in N}
        /\ \A m \in {2 ^ n : n \in N} : m <= Max({2 ^ n : n \in N})
    <3> DEFINE S == {2 ^ n : n \in N}
    <3>1. S \in SUBSET Nat /\ S # {} /\ IsFiniteSet(S)
      BY <2>3, <2>4
    <3> HIDE DEF S
    <3>2. Max(S) \in S /\ \A m \in S : m <= Max(S)
      BY <3>1, MaxGreatest
    <3> QED BY <3>2 DEF S
  <2>6. PICK n \in N : Max({2 ^ k : k \in N}) = 2 ^ n /\ 2 ^ PageBits <= 2 ^ n
    BY <2>4, <2>5
  <2>7. PageBits <= n /\ n \in Nat
    <3>1. n \in Nat
      BY <2>1
    <3>2. ASSUME n < PageBits PROVE FALSE
      <4>1. 2 * 2 ^ n <= 2 ^ PageBits /\ 2 ^ n \in Nat \ {0} /\ 2 ^ PageBits \in Nat
        BY <3>1, <3>2, <1>2, Pow2Mono, Pow2Pos
      <4> QED BY <4>1, <2>6
    <3> QED BY <3>1, <3>2, <1>2
  <2>8. sizeclass_to_alignment[c] = 2 ^ n
    <3>1. sizeclass_to_alignment[c] = lsb(s)
      BY <1>1, <1>3 DEF sizeclass_to_alignment, SlabClasses
    <3> QED BY <3>1, <2>6 DEF lsb, N
  <2>9. (1 * 2 ^ n) % 2 ^ PageBits = 0 /\ 1 * 2 ^ n = 2 ^ n
    <3>1. (1 * 2 ^ n) % 2 ^ PageBits = 0
      BY <1>2, <2>7, PowDivides
    <3>2. 2 ^ n \in Nat
      BY <2>7, Pow2Nat
    <3> QED BY <3>1, <3>2
  <2> QED BY <2>8, <2>9, <1>2
<1> QED BY <1>3, <1>4, <1>5
=============================================================================
