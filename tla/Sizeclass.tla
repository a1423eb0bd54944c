------------------------------ MODULE Sizeclass ------------------------------
(***************************************************************************)
(* The arithmetic of size classes (bits.hpp, sizeclass.hpp): a size is     *)
(* written as an exponent and IntermediateBits bits of mantissa, so that   *)
(* four classes lie between two powers of two.                             *)
(***************************************************************************)
EXTENDS Integers, FiniteSetsExt

CONSTANTS
  Bits,                  \* of size_t
  AddressBits,
  IntermediateBits,
  MinAllocBits,
  MediumThresholdBits,   \* from here on objects are medium
  LargeThresholdBits,    \* from here on they are large
  PageBits               \* pal::page_size_bits

SizesFit ==
  /\ {Bits, AddressBits, IntermediateBits, MinAllocBits, MediumThresholdBits,
      LargeThresholdBits, PageBits} \subseteq Nat
  /\ IntermediateBits + MinAllocBits < MediumThresholdBits
  /\ MediumThresholdBits < LargeThresholdBits
  /\ LargeThresholdBits < AddressBits /\ AddressBits < Bits
  /\ PageBits + IntermediateBits <= MediumThresholdBits

ASSUME SizeclassConstants == SizesFit

one_at_bit(shift) == 2 ^ shift

MinAllocSize == one_at_bit(MinAllocBits)
MediumThreshold == one_at_bit(MediumThresholdBits)
LargeThreshold == one_at_bit(LargeThresholdBits)
PageSize == one_at_bit(PageBits)

(* What is stored in a size_t, a uint8_t and a uint16_t. *)
SizeT(x) == x % 2 ^ Bits
Uint8(x) == x % 2 ^ 8
Uint16(x) == x % 2 ^ 16

countl_zero(x) ==
  IF x = 0 THEN Bits ELSE CHOOSE n \in 0 .. Bits - 1 : x \div 2 ^ (Bits - 1 - n) = 1

lsb(x) == Max({2 ^ n : n \in {n \in 0 .. Bits - 1 : x % 2 ^ n = 0}})

(* The exponent of the least power of two that is not below x. *)
next_pow2_bits(x) == Bits - countl_zero(SizeT(x - 1))

(* The bits below the exponent: the mantissa and what it leaves out. *)
FieldBits == IntermediateBits + MinAllocBits

(* Mutation: value is not decremented. *)
to_exp_mant_above(size) ==
  LET e == Max({Bits - countl_zero(size) - FieldBits, 0})
      b == IF e = 0 THEN 0 ELSE 1
      m == (size \div 2 ^ (MinAllocBits + e - b)) % 2 ^ IntermediateBits
  IN  e * 2 ^ IntermediateBits + m

(* value | LeadingBit has at least FieldBits bits. *)
to_exp_mant(size) ==
  LET value == SizeT(size - 1)
      e == Max({Bits - countl_zero(value) - FieldBits, 0})
      b == IF e = 0 THEN 0 ELSE 1
      m == (value \div 2 ^ (MinAllocBits + e - b)) % 2 ^ IntermediateBits
  IN  e * 2 ^ IntermediateBits + m

(* Mutation: the mantissa is left out. *)
from_exp_mant_power(m_e) == 2 ^ (m_e \div 2 ^ IntermediateBits + FieldBits)

from_exp_mant(m_e) ==
  LET m == (m_e + 1) % 2 ^ IntermediateBits
      e == (m_e + 1) \div 2 ^ IntermediateBits
      b == IF e = 0 THEN 0 ELSE 1
  IN  (m + b * 2 ^ IntermediateBits) * 2 ^ (e - b + MinAllocBits)

size_to_sizeclass(size) == Uint8(to_exp_mant(size))

(* The class of every size fits in a uint8_t, as size_to_sizeclass asserts *)
(* for each, and the numbers of slots in a uint16_t and a uint8_t.         *)
CountersFit ==
  /\ (Bits - FieldBits + 1) * 2 ^ IntermediateBits <= 2 ^ 8 /\ AddressBits <= 2 ^ 8
  /\ MediumThresholdBits - MinAllocBits < 16
  /\ LargeThresholdBits - MediumThresholdBits <= 8

NumSizeclasses == size_to_sizeclass(LargeThreshold)
SmallClasses == 0 .. size_to_sizeclass(MediumThreshold) - 1
MediumClasses == size_to_sizeclass(MediumThreshold) .. NumSizeclasses - 1
LargeClasses == LargeThresholdBits .. AddressBits - 1

(* sizeclass_metadata *)
sizeclass_to_size == [sc \in SmallClasses \cup MediumClasses |-> from_exp_mant(sc)]

sizeclass_to_alignment == [sc \in DOMAIN sizeclass_to_size |-> lsb(sizeclass_to_size[sc])]

(* How many objects a slab of MediumThreshold bytes has. *)
small_slab_slots ==
  [sc \in SmallClasses |-> Uint16(MediumThreshold \div sizeclass_to_size[sc])]

(* Mutation: no page is left for the slab's own fields. *)
medium_slab_slots_all ==
  [sc \in MediumClasses |-> Uint8(LargeThreshold \div sizeclass_to_size[sc])]

(* How many objects a chunk of LargeThreshold bytes has after its header. *)
medium_slab_slots ==
  [sc \in MediumClasses |-> Uint8((LargeThreshold - PageSize) \div sizeclass_to_size[sc])]
=============================================================================
