----------------------------- MODULE BuddyProofs -----------------------------
(***************************************************************************)
(* Theorems about the buddy of Buddy.tla, for every choice of sizes and of *)
(* refill addresses: the blocks are aligned, never overlap, cover exactly  *)
(* what was granted, and are merged as far as possible.                    *)
(*                                                                         *)
(* The first part is about the address arithmetic of BuddyOps, the second  *)
(* about its operators, the third about the behaviour of Buddy; Range uses *)
(* the first two for each of its buddies.                                  *)
(*                                                                         *)
(* Every operation replaces some blocks by others that cover the same      *)
(* addresses (or adds or gives back whole blocks).  Replacement is the     *)
(* lemma about sets of blocks; the lemmas on divide_block and              *)
(* deallocate_block say which blocks are replaced by which.                *)
(***************************************************************************)
EXTENDS Buddy, DataLemmas

-----------------------------------------------------------------------------
(* Powers of two, as facts about one_at_bit. *)
LEMMA OneAtBit ==
  ASSUME NEW i \in Nat
  PROVE  /\ one_at_bit(i) \in Nat
         /\ one_at_bit(i) > 0
         /\ one_at_bit(i+1) = 2 * one_at_bit(i)
BY Pow2Pos, Pow2Succ DEF one_at_bit

(* Sizes grow with the bits, and the size of j is at least double that of  *)
(* every smaller i.                                                        *)
LEMMA OneAtBitMono ==
  ASSUME NEW i \in Nat, NEW j \in Nat, i < j
  PROVE  2 * one_at_bit(i) <= one_at_bit(j)
<1> DEFINE Bad == {k \in Nat : i < k /\ ~(2 * one_at_bit(i) <= one_at_bit(k))}
<1>1. SUFFICES ASSUME Bad # {} PROVE FALSE
  OBVIOUS
<1>2. PICK k \in Bad : \A m \in Bad : k <= m
  BY <1>1, NatLeast
<1>3. k # i + 1
  BY OneAtBit
<1>4. k - 1 \in Nat /\ i < k - 1 /\ k - 1 \notin Bad
  BY <1>2, <1>3
<1>5. 2 * one_at_bit(i) <= one_at_bit(k - 1)
  BY <1>4
<1>6. one_at_bit(k) = 2 * one_at_bit(k - 1)
  <2>1. (k - 1) + 1 = k
    OBVIOUS
  <2> QED BY <1>4, <2>1, OneAtBit
<1>7. one_at_bit(i) \in Nat /\ one_at_bit(k) \in Nat /\ one_at_bit(k - 1) \in Nat
  BY <1>4, OneAtBit
<1> HIDE DEF Bad
<1>8. ~(2 * one_at_bit(i) <= one_at_bit(k))
  BY DEF Bad
<1> QED BY <1>5, <1>6, <1>7, <1>8

-----------------------------------------------------------------------------
(* Aligned means: a multiple of the size.                                  *)
LEMMA AlignedMultiple ==
  ASSUME NEW a \in Nat, NEW i \in Nat
  PROVE  Aligned(a, i) <=> \E q \in Nat : a = q * one_at_bit(i)
<1> DEFINE p == one_at_bit(i)
<1>1. p \in Nat /\ p > 0
  BY OneAtBit
<1> HIDE DEF p
<1>2. ASSUME a % p = 0 PROVE \E q \in Nat : a = q * p
  <2>1. a \div p \in Nat /\ a = (a \div p) * p + (a % p)
    BY <1>1, QuotRem
  <2>2. (a \div p) * p \in Nat
    BY <1>1, <2>1
  <2>3. a = (a \div p) * p
    BY <2>1, <2>2, <1>2
  <2> QED BY <2>1, <2>3
<1>3. ASSUME NEW q \in Nat, a = q * p PROVE a % p = 0
  <2>1. q * p + 0 = a
    BY <1>1, <1>3
  <2>2. (q * p + 0) % p = 0
    BY <1>1, RemOfSum
  <2> QED BY <2>1, <2>2
<1> QED BY <1>2, <1>3 DEF Aligned, p

(***************************************************************************)
(* The other half of an aligned block lies above it if the pair starts at  *)
(* the block, and below it otherwise.                                      *)
(***************************************************************************)
LEMMA OtherHalfCases ==
  ASSUME NEW a \in Nat, NEW i \in Nat, Aligned(a, i)
  PROVE  \/ /\ Aligned(a, i+1)
            /\ OtherHalf(a, i) = a + one_at_bit(i)
         \/ /\ ~Aligned(a, i+1)
            /\ OtherHalf(a, i) = a - one_at_bit(i)
            /\ a - one_at_bit(i) \in Nat
            /\ Aligned(a - one_at_bit(i), i+1)
<1> DEFINE p == one_at_bit(i)
<1> DEFINE pp == one_at_bit(i+1)
<1>1. p \in Nat /\ p > 0 /\ pp \in Nat /\ pp > 0 /\ pp = 2 * p /\ i + 1 \in Nat
  BY OneAtBit
<1>10. \A b \in Nat : Aligned(b, i+1) <=> \E k \in Nat : b = k * pp
  BY <1>1, AlignedMultiple
<1>2. PICK q \in Nat : a = q * p
  BY AlignedMultiple
<1> HIDE DEF p, pp
<1>3. a \div p = q
  <2>1. (q * p + 0) \div p = q
    BY <1>1, RemOfSum
  <2>2. q * p + 0 = a
    BY <1>1, <1>2
  <2> QED BY <2>1, <2>2
<1>4. CASE q % 2 = 0
  <2>1. PICK h \in Nat : q = 2 * h
    <3>1. q \div 2 \in Nat /\ q = 2 * (q \div 2)
      BY <1>4
    <3> QED BY <3>1
  <2>2. a = h * pp
    BY <1>1, <1>2, <2>1
  <2>3. Aligned(a, i+1)
    BY <1>10, <2>2
  <2>4. OtherHalf(a, i) = a + p
    BY <1>3, <1>4 DEF OtherHalf, p
  <2> QED BY <2>3, <2>4 DEF p
<1>5. CASE q % 2 # 0
  <2>1. PICK h \in Nat : q = 2 * h + 1
    <3>1. q \div 2 \in Nat /\ q = 2 * (q \div 2) + 1
      BY <1>5
    <3> QED BY <3>1
  <2>2. a = h * pp + p
    BY <1>1, <1>2, <2>1
  <2>3. h * pp \in Nat /\ a - p = h * pp
    BY <1>1, <2>2
  <2>4. Aligned(a - p, i+1)
    BY <1>10, <2>3
  <2>5. a % pp = p
    <3>1. p < pp
      BY <1>1
    <3>2. (h * pp + p) % pp = p
      BY <1>1, <3>1, RemOfSum
    <3> QED BY <2>2, <3>2
  <2>6. ~Aligned(a, i+1)
    BY <1>1, <2>5 DEF Aligned, pp
  <2>7. OtherHalf(a, i) = a - p
    BY <1>3, <1>5 DEF OtherHalf, p
  <2> QED BY <2>3, <2>4, <2>6, <2>7 DEF p
<1> QED BY <1>4, <1>5

-----------------------------------------------------------------------------
(* Merging.  MergedNode(ptr, i) is the aligned block of 2^i around ptr.    *)
LEMMA MergedNodeAround ==
  ASSUME NEW ptr \in Nat, NEW i \in Nat
  PROVE  /\ MergedNode(ptr, i) \in Nat
         /\ Aligned(MergedNode(ptr, i), i)
         /\ MergedNode(ptr, i) <= ptr
         /\ ptr < MergedNode(ptr, i) + one_at_bit(i)
<1> DEFINE p == one_at_bit(i)
<1>1. p \in Nat /\ p > 0
  BY OneAtBit
<1> HIDE DEF p
<1>2. /\ ptr \div p \in Nat /\ ptr % p \in Nat /\ ptr % p < p
      /\ ptr = (ptr \div p) * p + (ptr % p)
  BY <1>1, QuotRem
<1>3. (ptr \div p) * p \in Nat
  BY <1>1, <1>2
<1>4. MergedNode(ptr, i) = (ptr \div p) * p
  BY <1>2, <1>3 DEF MergedNode, p
<1>5. Aligned(MergedNode(ptr, i), i)
  BY <1>2, <1>3, <1>4, AlignedMultiple DEF p
<1> DEFINE m == MergedNode(ptr, i)
<1>6. m = (ptr \div p) * p /\ m \in Nat
  BY <1>3, <1>4
<1> DEFINE r == ptr % p
           z == (ptr \div p) * p
<1>7. r \in Nat /\ r < p /\ ptr = z + r /\ z \in Nat /\ m = z
  BY <1>2, <1>3, <1>6
<1> HIDE DEF m, r, z
<1>8. m \in Nat /\ m <= ptr /\ ptr < m + p
  BY <1>1, <1>7
<1> QED BY <1>5, <1>8 DEF m, p

(* The aligned block that an address lies in is unique.                    *)
LEMMA MergedNodeUnique ==
  ASSUME NEW ptr \in Nat, NEW i \in Nat, NEW x \in Nat,
         Aligned(x, i), x <= ptr, ptr < x + one_at_bit(i)
  PROVE  MergedNode(ptr, i) = x
<1> DEFINE p == one_at_bit(i)
           m == MergedNode(ptr, i)
<1>1. p \in Nat /\ p > 0
  BY OneAtBit
<1>2. m \in Nat /\ Aligned(m, i) /\ m <= ptr /\ ptr < m + p
  BY MergedNodeAround
<1>3. PICK q \in Nat : x = q * p
  BY AlignedMultiple
<1>4. PICK k \in Nat : m = k * p
  BY <1>2, AlignedMultiple
<1>5. x <= ptr /\ ptr < x + p
  OBVIOUS
<1> HIDE DEF p, m
<1> DEFINE r == ptr - x
           s == ptr - m
<1>6. x + r = ptr /\ m + s = ptr /\ r \in Nat /\ r < p /\ s \in Nat /\ s < p
  BY <1>1, <1>2, <1>5
<1> HIDE DEF r, s
<1>7. q * p + r = k * p + s
  BY <1>3, <1>4, <1>6
<1>8. q = k
  BY <1>1, <1>6, <1>7, QuotUnique
<1>9. m = x
  BY <1>3, <1>4, <1>8
<1> QED BY <1>9 DEF m

(* One round of the merging loop: the block and its other half are disjoint *)
(* and together they are the next larger block around ptr.                  *)
LEMMA MergeStep ==
  ASSUME NEW ptr \in Nat, NEW i \in Nat
  PROVE  LET m == MergedNode(ptr, i)
             other == OtherHalf(m, i)
         IN  /\ other \in Nat
             /\ Aligned(other, i)
             /\ Span(m, i) \cap Span(other, i) = {}
             /\ Span(MergedNode(ptr, i+1), i+1) = Span(m, i) \cup Span(other, i)
<1> DEFINE m == MergedNode(ptr, i)
           other == OtherHalf(m, i)
           p == one_at_bit(i)
<1>1. /\ p \in Nat /\ p > 0 /\ one_at_bit(i+1) = 2 * p
  BY OneAtBit
<1>2. m \in Nat /\ Aligned(m, i) /\ m <= ptr /\ ptr < m + p
  BY MergedNodeAround
<1>3. PICK q \in Nat : m = q * p
  BY <1>2, AlignedMultiple
<1>4. CASE Aligned(m, i+1) /\ other = m + p
  <2>1. MergedNode(ptr, i+1) = m
    BY <1>1, <1>2, <1>4, MergedNodeUnique
  <2>2. Aligned(other, i)
    <3>1. m + p = (q + 1) * p /\ m + p \in Nat
      BY <1>1, <1>2, <1>3
    <3> QED BY <3>1, <1>4, AlignedMultiple
  <2>3. Span(m, i+1) = Span(m, i) \cup Span(m + p, i)
    BY <1>1, <1>2 DEF Span
  <2>4. Span(m, i) \cap Span(m + p, i) = {}
    BY <1>1, <1>2 DEF Span
  <2> QED BY <1>1, <1>2, <1>4, <2>1, <2>2, <2>3, <2>4
<1>5. CASE /\ other = m - p /\ m - p \in Nat /\ Aligned(m - p, i+1)
  <2>1. MergedNode(ptr, i+1) = m - p
    BY <1>1, <1>2, <1>5, MergedNodeUnique
  <2>2. Aligned(other, i)
    <3>1. m - p = (q - 1) * p
      BY <1>1, <1>2, <1>3
    <3>2. q - 1 \in Nat
      <4>1. q # 0
        BY <1>1, <1>3, <1>5
      <4> QED BY <4>1
    <3> QED BY <3>1, <3>2, <1>5, AlignedMultiple
  <2>3. Span(m - p, i+1) = Span(m, i) \cup Span(m - p, i)
    BY <1>1, <1>2, <1>5 DEF Span
  <2>4. Span(m, i) \cap Span(m - p, i) = {}
    BY <1>1, <1>2, <1>5 DEF Span
  <2> QED BY <1>5, <2>1, <2>2, <2>3, <2>4
<1>6. \/ Aligned(m, i+1) /\ other = m + p
      \/ other = m - p /\ m - p \in Nat /\ Aligned(m - p, i+1)
  BY <1>2, OtherHalfCases
<1> QED BY <1>4, <1>5, <1>6

(* Merging up to size n covers the block that came back and the halves that *)
(* were consolidated on the way, and nothing else.                          *)
LEMMA MergedCover ==
  ASSUME NEW ptr \in Nat, NEW index \in Nat, NEW n \in Nat,
         Aligned(ptr, index), index <= n
  PROVE  Span(MergedNode(ptr, n), n)
           = Span(ptr, index) \cup
             UNION {Span(OtherHalf(MergedNode(ptr, i), i), i) : i \in index .. n - 1}
<1> DEFINE Half(i) == Span(OtherHalf(MergedNode(ptr, i), i), i)
           Whole(k) == Span(ptr, index) \cup UNION {Half(i) : i \in index .. k - 1}
           Bad == {k \in Nat : index <= k /\ Span(MergedNode(ptr, k), k) # Whole(k)}
<1>1. SUFFICES ASSUME Bad # {} PROVE FALSE
  OBVIOUS
<1>2. PICK k \in Bad : \A l \in Bad : k <= l
  BY <1>1, NatLeast
<1>3. k # index
  <2>1. MergedNode(ptr, index) = ptr
    BY MergedNodeUnique, OneAtBit
  <2>2. UNION {Half(i) : i \in index .. index - 1} = {}
    OBVIOUS
  <2> QED BY <2>1, <2>2
<1>4. k - 1 \in Nat /\ index <= k - 1 /\ k - 1 \notin Bad
  BY <1>2, <1>3
<1>5. Span(MergedNode(ptr, k - 1), k - 1) = Whole(k - 1)
  BY <1>4
<1>6. Span(MergedNode(ptr, k), k) = Span(MergedNode(ptr, k - 1), k - 1) \cup Half(k - 1)
  <2>1. (k - 1) + 1 = k
    OBVIOUS
  <2> QED BY <1>4, <2>1, MergeStep
<1>7. Whole(k) = Whole(k - 1) \cup Half(k - 1)
  <2>1. index .. k - 1 = (index .. (k - 1) - 1) \cup {k - 1}
    BY <1>4
  <2> HIDE DEF Half
  <2> QED BY <2>1
<1>8. Span(MergedNode(ptr, k), k) # Whole(k)
  OBVIOUS
<1> HIDE DEF Half, Whole, Bad
<1> QED BY <1>5, <1>6, <1>7, <1>8

-----------------------------------------------------------------------------
(* Dividing a block of 2^from down to 2^to: the lowest 2^to and the upper   *)
(* halves that divide_block inserts cover exactly the block ...             *)
LEMMA DivideCover ==
  ASSUME NEW node \in Nat, NEW to \in Nat, NEW from \in Nat, to <= from
  PROVE  Span(node, from)
           = Span(node, to) \cup
             UNION {Span(node + one_at_bit(i), i) : i \in to .. from - 1}
<1> DEFINE Half(i) == Span(node + one_at_bit(i), i)
           Whole(k) == Span(node, to) \cup UNION {Half(i) : i \in to .. k - 1}
           Bad == {k \in Nat : to <= k /\ Span(node, k) # Whole(k)}
<1>1. SUFFICES ASSUME Bad # {} PROVE FALSE
  OBVIOUS
<1>2. PICK k \in Bad : \A l \in Bad : k <= l
  BY <1>1, NatLeast
<1>3. k # to
  <2>1. UNION {Half(i) : i \in to .. to - 1} = {}
    OBVIOUS
  <2> QED BY <2>1
<1>4. k - 1 \in Nat /\ to <= k - 1 /\ k - 1 \notin Bad
  BY <1>2, <1>3
<1>5. Span(node, k - 1) = Whole(k - 1)
  BY <1>4
<1>6. Span(node, k) = Span(node, k - 1) \cup Half(k - 1)
  <2>1. one_at_bit(k) = 2 * one_at_bit(k - 1) /\ one_at_bit(k - 1) \in Nat
    <3>1. (k - 1) + 1 = k
      OBVIOUS
    <3> QED BY <1>4, <3>1, OneAtBit
  <2> QED BY <2>1 DEF Span
<1>7. Whole(k) = Whole(k - 1) \cup Half(k - 1)
  <2>1. to .. k - 1 = (to .. (k - 1) - 1) \cup {k - 1}
    BY <1>4
  <2> HIDE DEF Half
  <2> QED BY <2>1
<1>8. Span(node, k) # Whole(k)
  OBVIOUS
<1> HIDE DEF Half, Whole, Bad
<1> QED BY <1>5, <1>6, <1>7, <1>8

(* ... and they are disjoint.                                              *)
LEMMA DivideDisjoint ==
  ASSUME NEW node \in Nat, NEW i \in Nat, NEW j \in Nat, i < j
  PROVE  /\ Span(node, i) \cap Span(node + one_at_bit(j), j) = {}
         /\ Span(node + one_at_bit(i), i) \cap Span(node + one_at_bit(j), j) = {}
<1>1. /\ one_at_bit(i) \in Nat /\ one_at_bit(j) \in Nat
      /\ one_at_bit(i) > 0 /\ 2 * one_at_bit(i) <= one_at_bit(j)
  BY OneAtBit, OneAtBitMono
<1> QED BY <1>1 DEF Span

(* A block covers at least its own address.                                *)
LEMMA SpanSelf ==
  ASSUME NEW a \in Nat, NEW i \in Nat
  PROVE  a \in Span(a, i) /\ Span(a, i) \subseteq Nat
BY OneAtBit DEF Span

-----------------------------------------------------------------------------
Block == Nat \X BlockBits

(* No two blocks of B overlap.  *)
Apart(B) == \A a, b \in B : a # b => BlockSpan(a) \cap BlockSpan(b) = {}

Cover(B) == UNION {BlockSpan(b) : b \in B}

AllAligned(B) == \A b \in B : Aligned(b[1], b[2])

-----------------------------------------------------------------------------
(* Sizes of blocks are natural numbers.                                    *)
LEMMA BlockBitsNat == BlockBits \subseteq Nat /\ BitBegin \in Nat /\ BitEnd \in Nat
BY BuddyBits DEF BlockBits

(* The free blocks are what the trees hold.                                *)
LEMMA FreeBlocksMember ==
  ASSUME NEW t \in [BlockBits -> SUBSET Nat]
  PROVE  /\ FreeBlocks(t) \subseteq Block
         /\ \A a, i : <<a, i>> \in FreeBlocks(t) <=> i \in BlockBits /\ a \in t[i]
BY DEF FreeBlocks, Block

(* The addresses of a block.                                               *)
LEMMA BlockSpanNat ==
  ASSUME NEW b \in Block
  PROVE  b[1] \in BlockSpan(b) /\ BlockSpan(b) \subseteq Nat
BY SpanSelf, BlockBitsNat DEF Block, BlockSpan

-----------------------------------------------------------------------------
(* An aligned block is aligned to every smaller size as well.              *)
LEMMA AlignedDown ==
  ASSUME NEW a \in Nat, NEW i \in Nat, NEW j \in Nat, i <= j, Aligned(a, j)
  PROVE  Aligned(a, i)
<1> DEFINE Bad == {d \in Nat : d <= j /\ ~Aligned(a, j - d)}
<1>1. SUFFICES ASSUME Bad # {} PROVE FALSE
  <2>1. j - i \in Nat /\ j - i <= j /\ j - (j - i) = i
    OBVIOUS
  <2>2. j - i \notin Bad
    BY <1>1
  <2> QED BY <2>1, <2>2
<1>2. PICK d \in Bad : \A e \in Bad : d <= e
  BY <1>1, NatLeast
<1>3. d # 0
  OBVIOUS
<1>4. d - 1 \in Nat /\ d - 1 \notin Bad
  BY <1>2, <1>3
<1>5. Aligned(a, j - (d - 1)) /\ j - (d - 1) = (j - d) + 1 /\ j - d \in Nat
  BY <1>4
<1>6. PICK q \in Nat : a = q * one_at_bit((j - d) + 1)
  BY <1>5, AlignedMultiple
<1> DEFINE p == one_at_bit(j - d)
<1>7. p \in Nat /\ one_at_bit((j - d) + 1) = 2 * p
  BY <1>5, OneAtBit
<1>8. a = (2 * q) * p /\ 2 * q \in Nat
  <2> HIDE DEF p
  <2> QED BY <1>6, <1>7
<1>9. Aligned(a, j - d)
  BY <1>5, <1>8, AlignedMultiple
<1> QED BY <1>9

(* The blocks divide_block makes of one block of 2^from.                   *)
Halves(node, from, to) == {<<node + one_at_bit(i), i>> : i \in to .. from - 1}

(* The halves that divide_block frees, and what it leaves, are apart and   *)
(* have the addresses of the block.                                        *)
LEMMA Divided ==
  ASSUME NEW node \in Nat, NEW to \in BlockBits, NEW from \in Nat,
         to <= from, from <= BitEnd, Aligned(node, from)
  PROVE  LET H == Halves(node, from, to)
             New == {<<node, to>>} \cup H
         IN  /\ H \subseteq Block
             /\ {<<node, to>>} \cap H = {}
             /\ Apart(New)
             /\ Cover(New) = Span(node, from)
             /\ AllAligned(New)
<1> DEFINE H == Halves(node, from, to)
           New == {<<node, to>>} \cup H
<1>1. to \in Nat /\ to .. from - 1 \subseteq BlockBits /\ BlockBits \subseteq Nat
  BY BlockBitsNat, BuddyBits DEF BlockBits
<1>2. H \subseteq Block
  BY <1>1, OneAtBit DEF Halves, Block
<1>3. {<<node, to>>} \cap H = {}
  BY <1>1, OneAtBit DEF Halves
<1>4. Apart(New)
  <2> SUFFICES ASSUME NEW a \in New, NEW b \in New, a # b
               PROVE  BlockSpan(a) \cap BlockSpan(b) = {}
    BY DEF Apart
  <2>1. ASSUME NEW i \in to .. from - 1
        PROVE  Span(node, to) \cap Span(node + one_at_bit(i), i) = {}
    <3>1. CASE i = to
      BY <3>1, <1>1, OneAtBit DEF Span
    <3>2. CASE to < i
      BY <3>2, <1>1, DivideDisjoint
    <3> QED BY <3>1, <3>2, <1>1
  <2>2. ASSUME NEW i \in to .. from - 1, NEW j \in to .. from - 1, i # j
        PROVE  Span(node + one_at_bit(i), i) \cap Span(node + one_at_bit(j), j) = {}
    <3>1. CASE i < j
      BY <3>1, <1>1, DivideDisjoint
    <3>2. CASE j < i
      BY <3>2, <1>1, DivideDisjoint
    <3> QED BY <3>1, <3>2, <2>2, <1>1
  <2>3. CASE a = <<node, to>> /\ b \in H
    BY <2>1, <2>3 DEF Halves, BlockSpan
  <2>4. CASE b = <<node, to>> /\ a \in H
    BY <2>1, <2>4 DEF Halves, BlockSpan
  <2>5. CASE a \in H /\ b \in H
    BY <2>2, <2>5 DEF Halves, BlockSpan
  <2> QED BY <2>3, <2>4, <2>5
<1>5. Cover(New) = Span(node, from)
  <2>1. Cover(New) = Span(node, to) \cup
                     UNION {Span(node + one_at_bit(i), i) : i \in to .. from - 1}
    <3>1. Cover(New) = BlockSpan(<<node, to>>) \cup UNION {BlockSpan(b) : b \in H}
      BY DEF Cover
    <3>2. {BlockSpan(b) : b \in H}
            = {Span(node + one_at_bit(i), i) : i \in to .. from - 1}
      <4>1. \A i \in to .. from - 1 :
              BlockSpan(<<node + one_at_bit(i), i>>) = Span(node + one_at_bit(i), i)
        BY DEF BlockSpan
      <4>2. \A b \in H : \E i \in to .. from - 1 : b = <<node + one_at_bit(i), i>>
        BY DEF Halves
      <4>3. \A i \in to .. from - 1 : <<node + one_at_bit(i), i>> \in H
        BY DEF Halves
      <4> DEFINE S(i) == Span(node + one_at_bit(i), i)
      <4>4. \A b \in H : \E i \in to .. from - 1 : BlockSpan(b) = S(i)
        BY <4>1, <4>2
      <4>5. \A i \in to .. from - 1 : \E b \in H : BlockSpan(b) = S(i)
        BY <4>1, <4>3
      <4> HIDE DEF H, S
      <4>6. {BlockSpan(b) : b \in H} = {S(i) : i \in to .. from - 1}
        BY <4>4, <4>5
      <4> QED BY <4>6 DEF S
    <3> QED BY <3>1, <3>2 DEF BlockSpan
  <2> QED BY <2>1, <1>1, DivideCover
<1>6. AllAligned(New)
  <2>1. Aligned(node, to)
    BY <1>1, AlignedDown
  <2>2. ASSUME NEW i \in to .. from - 1
        PROVE  Aligned(node + one_at_bit(i), i)
    <3> DEFINE p == one_at_bit(i)
    <3>1. i \in Nat /\ p \in Nat /\ Aligned(node, i)
      <4>1. i \in Nat /\ i <= from
        BY <1>1
      <4> QED BY <4>1, AlignedDown, OneAtBit
    <3>2. PICK q \in Nat : node = q * p
      BY <3>1, AlignedMultiple
    <3>3. node + p = (q + 1) * p /\ node + p \in Nat
      <4> HIDE DEF p
      <4> QED BY <3>1, <3>2
    <3> QED BY <3>1, <3>3, AlignedMultiple
  <2> QED BY <2>1, <2>2 DEF AllAligned, Halves
<1> QED BY <1>2, <1>3, <1>4, <1>5, <1>6

(* What divide_block adds to the free blocks.                              *)
LEMMA DivideFree ==
  ASSUME NEW t \in [BlockBits -> SUBSET Nat], NEW node \in Nat,
         NEW to \in BlockBits, NEW from \in Nat, from <= BitEnd
  PROVE  LET t2 == divide_block(t, node, from, to)
         IN  /\ t2 \in [BlockBits -> SUBSET Nat]
             /\ FreeBlocks(t2) = FreeBlocks(t) \cup Halves(node, from, to)
<1> DEFINE t2 == divide_block(t, node, from, to)
<1>1. t2 \in [BlockBits -> SUBSET Nat]
  BY BlockBitsNat, OneAtBit DEF divide_block
<1>2. ASSUME NEW a, NEW i
      PROVE  <<a, i>> \in FreeBlocks(t2)
               <=> <<a, i>> \in FreeBlocks(t) \cup Halves(node, from, to)
  <2>1. <<a, i>> \in Halves(node, from, to)
          <=> i \in to .. from - 1 /\ a = node + one_at_bit(i)
    BY DEF Halves
  <2>2. i \in to .. from - 1 <=> i \in BlockBits /\ to <= i /\ i < from
    BY BuddyBits DEF BlockBits
  <2>3. <<a, i>> \in FreeBlocks(t2) <=> i \in BlockBits /\ a \in t2[i]
    BY <1>1, FreeBlocksMember
  <2>4. <<a, i>> \in FreeBlocks(t) <=> i \in BlockBits /\ a \in t[i]
    BY FreeBlocksMember
  <2>5. i \in BlockBits =>
          t2[i] = IF to <= i /\ i < from THEN t[i] \cup {node + one_at_bit(i)} ELSE t[i]
    BY DEF divide_block
  <2> QED BY <2>1, <2>2, <2>3, <2>4, <2>5
<1>3. FreeBlocks(t2) \subseteq Block /\ FreeBlocks(t) \subseteq Block
  BY <1>1, FreeBlocksMember
<1>4. Halves(node, from, to) \subseteq Block
  <2>1. ASSUME NEW i \in to .. from - 1
        PROVE  i \in BlockBits /\ node + one_at_bit(i) \in Nat
    <3>1. to \in Nat /\ i \in BlockBits /\ i \in Nat
      BY BlockBitsNat, BuddyBits DEF BlockBits
    <3> QED BY <3>1, OneAtBit
  <2> QED BY <2>1 DEF Halves, Block
<1> QED BY <1>1, <1>2, <1>3, <1>4 DEF Block

(* allocate_block, when a tree can serve the request: the extracted block   *)
(* is replaced by the allocated one and its upper halves.                   *)
LEMMA AllocateFree ==
  ASSUME NEW t \in [BlockBits -> SUBSET Nat], NEW index \in BlockBits,
         Donors(t, index) # {}
  PROVE  LET res == allocate_block(t, index)
         IN  \E from \in BlockBits :
               /\ index <= from
               /\ <<res.node, from>> \in FreeBlocks(t)
               /\ res.trees \in [BlockBits -> SUBSET Nat]
               /\ FreeBlocks(res.trees) = (FreeBlocks(t) \ {<<res.node, from>>})
                                            \cup Halves(res.node, from, index)
               /\ \A i \in index .. from - 1 : t[i] = {}
<1> DEFINE from == Min(Donors(t, index))
           node == Min(t[from])
           t1 == [t EXCEPT ![from] = @ \ {node}]
           res == allocate_block(t, index)
<1>1. index \in Nat /\ Donors(t, index) \subseteq BlockBits /\ BlockBits \subseteq Nat
  BY BlockBitsNat, BuddyBits DEF Donors, BlockBits
<1>2. from \in Donors(t, index) /\ \A i \in Donors(t, index) : from <= i
  BY <1>1, MinLeast
<1>3. from \in BlockBits /\ from \in Nat /\ index <= from /\ from <= BitEnd /\ t[from] # {}
  <2> HIDE DEF from
  <2>1. from \in index .. BitEnd - 1 /\ t[from] # {}
    BY <1>2 DEF Donors
  <2> QED BY <1>1, <1>2, <2>1, BuddyBits
<1>4. node \in t[from] /\ node \in Nat
  <2>1. t[from] \in SUBSET Nat
    BY <1>3
  <2> QED BY <1>3, <2>1, MinLeast
<1>5. res.node = node /\ res.trees = divide_block(t1, node, from, index)
  BY DEF allocate_block
<1>6. t1 \in [BlockBits -> SUBSET Nat]
  <2> HIDE DEF node, from
  <2> QED BY <1>3
<1>7. FreeBlocks(t1) = FreeBlocks(t) \ {<<node, from>>}
  <2> HIDE DEF node, from
  <2>1. \A a, i : <<a, i>> \in FreeBlocks(t1) <=> i \in BlockBits /\ a \in t1[i]
    BY <1>6, FreeBlocksMember
  <2>2. \A a, i : <<a, i>> \in FreeBlocks(t) <=> i \in BlockBits /\ a \in t[i]
    BY FreeBlocksMember
  <2>3. \A i \in BlockBits : t1[i] = IF i = from THEN t[i] \ {node} ELSE t[i]
    BY <1>3
  <2>4. FreeBlocks(t1) \subseteq Block /\ FreeBlocks(t) \subseteq Block
    BY <1>6, FreeBlocksMember
  <2> HIDE DEF t1
  <2>5. \A a, i : <<a, i>> \in FreeBlocks(t1) <=> <<a, i>> \in FreeBlocks(t) \ {<<node, from>>}
    BY <2>1, <2>2, <2>3
  <2> QED BY <2>4, <2>5 DEF Block
<1>8. \A i \in index .. from - 1 : t[i] = {}
  <2> SUFFICES ASSUME NEW i \in index .. from - 1 PROVE t[i] = {}
    OBVIOUS
  <2>1. i \in index .. BitEnd - 1 /\ i < from
    <3> HIDE DEF from
    <3> QED BY <1>1, <1>3, BuddyBits
  <2>2. i \notin Donors(t, index)
    <3>1. from \in Nat /\ i \in Nat
      BY <1>1, <1>3, <2>1
    <3> HIDE DEF from
    <3> QED BY <1>2, <2>1, <3>1
  <2> QED BY <2>1, <2>2 DEF Donors
<1>9. <<node, from>> \in FreeBlocks(t)
  BY <1>3, <1>4, FreeBlocksMember
<1> HIDE DEF node, from, t1
<1>10. /\ divide_block(t1, node, from, index) \in [BlockBits -> SUBSET Nat]
       /\ FreeBlocks(divide_block(t1, node, from, index))
            = FreeBlocks(t1) \cup Halves(node, from, index)
  BY <1>3, <1>4, <1>6, DivideFree
<1> HIDE DEF res
<1> QED BY <1>3, <1>5, <1>7, <1>8, <1>9, <1>10 DEF res

(* The halves that deallocate_block consolidates on the way up to 2^stop.   *)
Consolidated(ptr, index, stop) ==
  {<<OtherHalf(MergedNode(ptr, i), i), i>> : i \in index .. stop - 1}

(* A freed block and the halves it is merged with have the addresses of    *)
(* the merged block.                                                       *)
LEMMA ConsolidatedCover ==
  ASSUME NEW ptr \in Nat, NEW index \in Nat, NEW stop \in Nat, index <= stop,
         Aligned(ptr, index)
  PROVE  Cover({<<ptr, index>>} \cup Consolidated(ptr, index, stop))
           = Span(MergedNode(ptr, stop), stop)
<1> DEFINE C == Consolidated(ptr, index, stop)
           S(i) == Span(OtherHalf(MergedNode(ptr, i), i), i)
<1>1. \A b \in C : \E i \in index .. stop - 1 : BlockSpan(b) = S(i)
  BY DEF Consolidated, BlockSpan
<1>2. \A i \in index .. stop - 1 : \E b \in C : BlockSpan(b) = S(i)
  <2> TAKE i \in index .. stop - 1
  <2> DEFINE b == <<OtherHalf(MergedNode(ptr, i), i), i>>
  <2>1. b \in C
    BY DEF Consolidated
  <2>2. BlockSpan(b) = S(i)
    BY DEF BlockSpan
  <2> QED BY <2>1, <2>2
<1>3. BlockSpan(<<ptr, index>>) = Span(ptr, index)
  BY DEF BlockSpan
<1>4. Span(MergedNode(ptr, stop), stop)
        = Span(ptr, index) \cup UNION {S(i) : i \in index .. stop - 1}
  BY MergedCover
<1> HIDE DEF C, S
<1>5. {BlockSpan(b) : b \in C} = {S(i) : i \in index .. stop - 1}
  BY <1>1, <1>2
<1>6. Cover({<<ptr, index>>} \cup C) = BlockSpan(<<ptr, index>>) \cup UNION {BlockSpan(b) : b \in C}
  BY DEF Cover
<1> QED BY <1>3, <1>4, <1>5, <1>6 DEF C

(* deallocate_block: the halves it consolidates leave the trees, and the    *)
(* merged block enters its tree unless it is returned.                      *)
LEMMA DeallocateFree ==
  ASSUME NEW t \in [BlockBits -> SUBSET Nat], NEW index \in BlockBits, NEW ptr \in Nat
  PROVE  LET res == deallocate_block(t, ptr, index)
         IN  \E stop \in index .. BitEnd :
               /\ Consolidated(ptr, index, stop) \subseteq FreeBlocks(t)
               /\ res.trees \in [BlockBits -> SUBSET Nat]
               /\ stop < BitEnd =>
                    /\ res.node = nullptr
                    /\ OtherHalf(MergedNode(ptr, stop), stop) \notin t[stop]
                    /\ FreeBlocks(res.trees)
                         = (FreeBlocks(t) \ Consolidated(ptr, index, stop))
                             \cup {<<MergedNode(ptr, stop), stop>>}
               /\ stop = BitEnd =>
                    /\ res.node = MergedNode(ptr, BitEnd)
                    /\ FreeBlocks(res.trees) = FreeBlocks(t) \ Consolidated(ptr, index, stop)
<1> DEFINE stop == Min(StopSizes(t, ptr, index))
           C == Consolidated(ptr, index, stop)
           res == deallocate_block(t, ptr, index)
           half(i) == OtherHalf(MergedNode(ptr, i), i)
<1>1. /\ index \in Nat /\ BitEnd \in Nat /\ index < BitEnd /\ BlockBits \subseteq Nat
      /\ \A i \in index .. BitEnd - 1 : i \in BlockBits
  BY BlockBitsNat, BuddyBits DEF BlockBits
<1>2. /\ StopSizes(t, ptr, index) \subseteq Nat
      /\ BitEnd \in StopSizes(t, ptr, index)
  BY <1>1 DEF StopSizes
<1>3. stop \in StopSizes(t, ptr, index) /\ \A i \in StopSizes(t, ptr, index) : stop <= i
  BY <1>2, MinLeast
<1>4. /\ stop \in index .. BitEnd /\ stop \in Nat /\ index <= stop /\ stop <= BitEnd
      /\ stop < BitEnd => half(stop) \notin t[stop] /\ stop \in BlockBits
  <2> HIDE DEF stop
  <2>1. stop \in index .. BitEnd /\ (stop < BitEnd => half(stop) \notin t[stop])
    BY <1>3 DEF StopSizes
  <2> HIDE DEF half
  <2> QED BY <1>1, <2>1
<1>5. \A i \in index .. stop - 1 : i \in BlockBits /\ half(i) \in t[i]
  <2> HIDE DEF stop
  <2> TAKE i \in index .. stop - 1
  <2>1. i \in index .. BitEnd /\ i < BitEnd /\ i < stop /\ i \in BlockBits /\ i \in Nat
    BY <1>1, <1>4
  <2>2. i \notin StopSizes(t, ptr, index)
    BY <1>3, <1>4, <2>1
  <2> QED BY <2>1, <2>2 DEF StopSizes
<1>6. C \subseteq FreeBlocks(t)
  <2>1. \A i \in index .. stop - 1 : <<half(i), i>> \in FreeBlocks(t)
    BY <1>5, FreeBlocksMember
  <2> QED BY <2>1 DEF Consolidated
<1>7. MergedNode(ptr, stop) \in Nat
  BY <1>4, MergedNodeAround
<1> DEFINE m == MergedNode(ptr, stop)
<1>8. /\ res.node = IF stop = BitEnd THEN m ELSE nullptr
      /\ \A i \in BlockBits :
           res.trees[i] = IF index <= i /\ i < stop THEN t[i] \ {half(i)}
                          ELSE IF i = stop THEN t[i] \cup {m} ELSE t[i]
  BY DEF deallocate_block
<1>9. res.trees \in [BlockBits -> SUBSET Nat]
  <2>1. res.trees = [i \in BlockBits |-> res.trees[i]]
    BY DEF deallocate_block
  <2> HIDE DEF stop, m, half, res
  <2>2. \A i \in BlockBits : res.trees[i] \in SUBSET Nat
    BY <1>7, <1>8 DEF m
  <2> QED BY <2>1, <2>2
<1>10. \A a, i : <<a, i>> \in C <=> i \in index .. stop - 1 /\ a = half(i)
  BY DEF Consolidated
<1>11. \A a, i : <<a, i>> \in FreeBlocks(res.trees) <=> i \in BlockBits /\ a \in res.trees[i]
  BY <1>9, FreeBlocksMember
<1>12. \A a, i : <<a, i>> \in FreeBlocks(t) <=> i \in BlockBits /\ a \in t[i]
  BY FreeBlocksMember
<1>13. FreeBlocks(res.trees) \subseteq Block /\ FreeBlocks(t) \subseteq Block
  BY <1>9, FreeBlocksMember
<1> HIDE DEF stop, m, half, res, C
<1>14. \A i \in BlockBits : i \in index .. stop - 1 <=> index <= i /\ i < stop
  BY <1>1, <1>4
<1>15. ASSUME stop < BitEnd
       PROVE  FreeBlocks(res.trees) = (FreeBlocks(t) \ C) \cup {<<m, stop>>}
  <2>1. ASSUME NEW a, NEW i
        PROVE  <<a, i>> \in FreeBlocks(res.trees)
                 <=> <<a, i>> \in (FreeBlocks(t) \ C) \cup {<<m, stop>>}
    <3>1. <<a, i>> \in {<<m, stop>>} <=> a = m /\ i = stop
      OBVIOUS
    <3>2. stop \notin index .. stop - 1 /\ stop \in BlockBits
      BY <1>4, <1>15
    <3>3. CASE i \notin BlockBits
      <4>1. i # stop
        BY <3>2, <3>3
      <4> QED BY <3>1, <3>3, <4>1, <1>11, <1>12
    <3>4. CASE i \in BlockBits
      <4>1. CASE i = stop
        <5>1. res.trees[i] = t[i] \cup {m}
          BY <3>2, <3>4, <4>1, <1>8, <1>14
        <5> QED BY <3>1, <3>2, <3>4, <4>1, <5>1, <1>10, <1>11, <1>12
      <4>2. CASE i # stop
        <5>1. a \in res.trees[i] <=> a \in t[i] /\ ~(i \in index .. stop - 1 /\ a = half(i))
          BY <3>4, <4>2, <1>8, <1>14
        <5> QED BY <3>1, <3>4, <4>2, <5>1, <1>10, <1>11, <1>12
      <4> QED BY <4>1, <4>2
    <3> QED BY <3>3, <3>4
  <2>2. <<m, stop>> \in Block
    BY <1>4, <1>7, <1>15 DEF Block, m
  <2> QED BY <2>1, <2>2, <1>13 DEF Block
<1>16. ASSUME stop = BitEnd
       PROVE  FreeBlocks(res.trees) = FreeBlocks(t) \ C
  <2>1. ASSUME NEW a, NEW i
        PROVE  <<a, i>> \in FreeBlocks(res.trees) <=> <<a, i>> \in FreeBlocks(t) \ C
    <3>1. stop \notin BlockBits
      BY <1>16, BuddyBits DEF BlockBits
    <3>2. CASE i \notin BlockBits
      BY <3>2, <1>11, <1>12
    <3>3. CASE i \in BlockBits
      <4>1. i # stop
        BY <3>1, <3>3
      <4>2. a \in res.trees[i] <=> a \in t[i] /\ ~(i \in index .. stop - 1 /\ a = half(i))
        BY <3>3, <4>1, <1>8, <1>14
      <4> QED BY <3>3, <4>2, <1>10, <1>11, <1>12
    <3> QED BY <3>2, <3>3
  <2> QED BY <2>1, <1>13 DEF Block
<1>17. stop < BitEnd => res.node = nullptr
  BY <1>1, <1>8
<1>18. stop = BitEnd => res.node = MergedNode(ptr, BitEnd)
  BY <1>8 DEF m
<1>19. stop < BitEnd => OtherHalf(MergedNode(ptr, stop), stop) \notin t[stop]
  BY <1>4 DEF half
<1> QED BY <1>4, <1>6, <1>9, <1>15, <1>16, <1>17, <1>18, <1>19 DEF C, m, res

-----------------------------------------------------------------------------
(* OtherHalf is an involution on aligned addresses, and moves every one.    *)
LEMMA OtherHalfInvolution ==
  ASSUME NEW a \in Nat, NEW i \in Nat, Aligned(a, i)
  PROVE  OtherHalf(a, i) # a /\ OtherHalf(OtherHalf(a, i), i) = a
<1> DEFINE p == one_at_bit(i)
           b == OtherHalf(a, i)
<1>1. p \in Nat /\ p > 0 /\ one_at_bit(i+1) = 2 * p /\ i + 1 \in Nat
  BY OneAtBit
<1>2. CASE Aligned(a, i+1) /\ b = a + p
  <2>1. b \in Nat /\ Aligned(b, i)
    <3>1. PICK q \in Nat : a = q * p
      BY AlignedMultiple
    <3>2. a + p = (q + 1) * p /\ a + p \in Nat
      <4> HIDE DEF p
      <4> QED BY <1>1, <3>1
    <3> QED BY <1>2, <3>2, AlignedMultiple
  <2>2. ~Aligned(b, i+1)
    <3>1. PICK q \in Nat : a = q * one_at_bit(i+1)
      BY <1>1, <1>2, AlignedMultiple
    <3>2. (q * (2 * p) + p) % (2 * p) = p
      <4>1. 2 * p \in Nat /\ 2 * p > 0 /\ p < 2 * p
        BY <1>1
      <4> HIDE DEF p
      <4> QED BY <1>1, <4>1, RemOfSum
    <3>3. b = q * (2 * p) + p
      <4> HIDE DEF b
      <4> QED BY <1>1, <1>2, <3>1
    <3> HIDE DEF b, p
    <3> QED BY <1>1, <3>2, <3>3 DEF Aligned
  <2>3. OtherHalf(b, i) = b - p
    <3> HIDE DEF b
    <3> QED BY <2>1, <2>2, OtherHalfCases DEF p
  <2> HIDE DEF b, p
  <2> QED BY <1>1, <1>2, <2>3 DEF b
<1>3. CASE b = a - p /\ a - p \in Nat /\ Aligned(a - p, i+1)
  <2>1. b \in Nat /\ Aligned(b, i+1)
    BY <1>3
  <2>2. Aligned(b, i)
    <3> HIDE DEF b
    <3> QED BY <1>1, <2>1, AlignedDown
  <2>3. OtherHalf(b, i) = b + p
    <3> HIDE DEF b
    <3> QED BY <2>1, <2>2, OtherHalfCases DEF p
  <2> HIDE DEF b, p
  <2> QED BY <1>1, <1>3, <2>3 DEF b
<1>4. \/ Aligned(a, i+1) /\ b = a + p
      \/ b = a - p /\ a - p \in Nat /\ Aligned(a - p, i+1)
  BY OtherHalfCases
<1> QED BY <1>2, <1>3, <1>4

(***************************************************************************)
(* The invariant.  Coverage needs disjointness (a consolidated half is     *)
(* free and nowhere else), disjointness needs alignment (the block and its *)
(* other half make up the next larger block), and 0 is never granted,      *)
(* because the code tells "nothing to pass on" by a null pointer.          *)
(***************************************************************************)
IInv == /\ TypeOK
        /\ BlocksAligned
        /\ BlocksDisjoint
        /\ NothingLost
        /\ Coalesced
        /\ nullptr \notin granted

(* The blocks part of the invariant, as a statement on L = live, F = Free. *)
GoodBlocks(L, F, G) ==
  /\ L \subseteq Block
  /\ F \subseteq Block
  /\ AllAligned(L \cup F)
  /\ L \cap F = {}
  /\ Apart(L \cup F)
  /\ Cover(L \cup F) = G
  /\ nullptr \notin G

(* The inductive invariant says that free and held blocks are aligned,     *)
(* apart, and cover what was granted.                                      *)
LEMMA GoodBlocksOfIInv ==
  ASSUME IInv
  PROVE  GoodBlocks(live, Free, granted)
<1>1. Free \subseteq Block
  BY FreeBlocksMember DEF IInv, TypeOK, Free
<1> QED BY <1>1 DEF IInv, TypeOK, BlocksAligned, BlocksDisjoint, NothingLost, GoodBlocks,
                    AllAligned, Apart, Cover, Block

(* Replacing the blocks Old among the held (L) and the free (F) blocks by  *)
(* the blocks NL and NF, whose addresses do not meet what remains,         *)
(* preserves it.                                                           *)
LEMMA GoodReplacement ==
  ASSUME NEW L, NEW F, NEW G, NEW Old, NEW NL, NEW NF,
         GoodBlocks(L, F, G),
         Old \subseteq L \cup F, NL \subseteq Block, NF \subseteq Block,
         NL \cap NF = {}, Apart(NL \cup NF), AllAligned(NL \cup NF),
         Cover(NL \cup NF) \cap (G \ Cover(Old)) = {},
         nullptr \notin Cover(NL \cup NF)
  PROVE  GoodBlocks((L \ Old) \cup NL, (F \ Old) \cup NF,
                    (G \ Cover(Old)) \cup Cover(NL \cup NF))
<1> DEFINE Kept == (L \cup F) \ Old
           New == NL \cup NF
           L2 == (L \ Old) \cup NL
           F2 == (F \ Old) \cup NF
           G2 == (G \ Cover(Old)) \cup Cover(New)
<1>1. /\ L \subseteq Block /\ F \subseteq Block /\ L \cap F = {}
      /\ Apart(L \cup F) /\ Cover(L \cup F) = G
  BY DEF GoodBlocks
<1>2. Cover(Kept) = G \ Cover(Old)
  BY <1>1 DEF Cover, Apart
<1>3. \A a \in Kept, b \in New : BlockSpan(a) \cap BlockSpan(b) = {}
  BY <1>2 DEF Cover
<1>4. \A a \in Kept, b \in New : a # b
  <2> SUFFICES ASSUME NEW a \in Kept, a \in New PROVE FALSE
    OBVIOUS
  <2>1. BlockSpan(a) # {}
    BY <1>1, BlockSpanNat
  <2> QED BY <1>3, <2>1
<1>5. L2 \cap F2 = {}
  BY <1>1, <1>4
<1>6. Apart(Kept \cup New)
  <2> SUFFICES ASSUME NEW a \in Kept \cup New, NEW b \in Kept \cup New, a # b
               PROVE  BlockSpan(a) \cap BlockSpan(b) = {}
    BY DEF Apart
  <2>1. CASE a \in Kept /\ b \in Kept
    BY <1>1, <2>1 DEF Apart
  <2>2. CASE a \in New /\ b \in New
    BY <2>2 DEF Apart
  <2>3. CASE a \in Kept /\ b \in New
    BY <2>3, <1>3
  <2>4. CASE a \in New /\ b \in Kept
    BY <2>4, <1>3
  <2> QED BY <2>1, <2>2, <2>3, <2>4
<1>7. Cover(Kept \cup New) = G2
  BY <1>2 DEF Cover
<1>8. L2 \cup F2 = Kept \cup New
  OBVIOUS
<1>9. L2 \subseteq Block /\ F2 \subseteq Block
  BY <1>1
<1>10. AllAligned(L2 \cup F2)
  BY DEF GoodBlocks, AllAligned
<1>11. nullptr \notin G2
  BY DEF GoodBlocks
<1> HIDE DEF Kept, New, L2, F2, G2
<1>12. GoodBlocks(L2, F2, G2)
  BY <1>5, <1>6, <1>7, <1>8, <1>9, <1>10, <1>11 DEF GoodBlocks
<1> QED BY <1>12 DEF L2, F2, G2, New

(* A statement about the trees that says the same as Coalesced.            *)
Merged(t) == \A i \in BlockBits : \A a \in t[i] : OtherHalf(a, i) \notin t[i]

(* Dividing a block brings no two halves together, if the trees on the way *)
(* were empty.                                                             *)
LEMMA DivideMerged ==
  ASSUME NEW t \in [BlockBits -> SUBSET Nat], Merged(t), NEW node \in Nat,
         NEW to \in BlockBits, NEW from \in Nat, from <= BitEnd, Aligned(node, from),
         to <= from, \A i \in to .. from - 1 : t[i] = {}
  PROVE  Merged(divide_block(t, node, from, to))
<1> DEFINE t2 == divide_block(t, node, from, to)
<1>1. to \in Nat /\ BlockBits \subseteq Nat
  BY BlockBitsNat
<1> SUFFICES ASSUME NEW i \in BlockBits, NEW a \in t2[i]
             PROVE  OtherHalf(a, i) \notin t2[i]
  BY DEF Merged
<1>2. CASE to <= i /\ i < from
  <2>1. t2[i] = {node + one_at_bit(i)}
    BY <1>1, <1>2 DEF divide_block
  <2>2. node + one_at_bit(i) \in Nat /\ Aligned(node + one_at_bit(i), i)
    <3>1. /\ <<node + one_at_bit(i), i>> \in Halves(node, from, to)
          /\ i \in Nat /\ one_at_bit(i) \in Nat
      BY <1>1, <1>2, OneAtBit DEF Halves
    <3>2. AllAligned({<<node, to>>} \cup Halves(node, from, to))
      BY Divided
    <3> QED BY <3>1, <3>2 DEF AllAligned
  <2> QED BY <1>1, <2>1, <2>2, OtherHalfInvolution
<1>3. CASE ~(to <= i /\ i < from)
  BY <1>3 DEF divide_block, Merged
<1> QED BY <1>2, <1>3

(* Nor does allocate_block, which divides the least block that is large    *)
(* enough.                                                                 *)
LEMMA AllocateMerged ==
  ASSUME NEW t \in [BlockBits -> SUBSET Nat], Merged(t), NEW index \in BlockBits,
         Donors(t, index) # {}, AllAligned(FreeBlocks(t))
  PROVE  Merged(allocate_block(t, index).trees)
<1> DEFINE from == Min(Donors(t, index))
           node == Min(t[from])
           t1 == [t EXCEPT ![from] = @ \ {node}]
<1>1. index \in Nat /\ Donors(t, index) \subseteq BlockBits /\ BlockBits \subseteq Nat
  BY BlockBitsNat, BuddyBits DEF Donors, BlockBits
<1>2. from \in Donors(t, index) /\ \A i \in Donors(t, index) : from <= i
  BY <1>1, MinLeast
<1>3. from \in index .. BitEnd - 1 /\ t[from] # {} /\ from \in BlockBits
  <2> HIDE DEF from
  <2> QED BY <1>1, <1>2 DEF Donors
<1>4. node \in t[from] /\ node \in Nat
  <2>1. t[from] \in SUBSET Nat
    BY <1>3
  <2> QED BY <1>3, <2>1, MinLeast
<1>5. allocate_block(t, index).trees = divide_block(t1, node, from, index)
  BY DEF allocate_block
<1> HIDE DEF node
<1>6. Aligned(node, from)
  <2>1. <<node, from>> \in FreeBlocks(t)
    BY <1>3, <1>4, FreeBlocksMember
  <2> QED BY <2>1 DEF AllAligned
<1>7. \A i \in index .. from - 1 : i \in BlockBits /\ t[i] = {}
  <2> TAKE i \in index .. from - 1
  <2> HIDE DEF from
  <2>1. i \in index .. BitEnd - 1 /\ i < from /\ i \in BlockBits /\ from \in Nat
    BY <1>1, <1>3, BuddyBits DEF BlockBits
  <2>2. i \notin Donors(t, index)
    BY <1>1, <1>2, <2>1
  <2> QED BY <2>1, <2>2 DEF Donors
<1> HIDE DEF from
<1>8. t1 \in [BlockBits -> SUBSET Nat] /\ \A i \in BlockBits : t1[i] \subseteq t[i]
  BY <1>3
<1>9. Merged(t1) /\ \A i \in index .. from - 1 : t1[i] = {}
  <2> HIDE DEF t1
  <2> QED BY <1>7, <1>8 DEF Merged
<1>10. from \in Nat /\ from <= BitEnd /\ index <= from
  BY <1>1, <1>3, BuddyBits
<1> HIDE DEF t1
<1>11. Merged(divide_block(t1, node, from, index))
  BY <1>4, <1>6, <1>8, <1>9, <1>10, DivideMerged
<1> QED BY <1>5, <1>11 DEF t1

(* After deallocate_block no tree holds both halves of a block.            *)
LEMMA DeallocateMerged ==
  ASSUME NEW t \in [BlockBits -> SUBSET Nat], Merged(t), AllAligned(FreeBlocks(t)),
         NEW index \in BlockBits, NEW ptr \in Nat
  PROVE  Merged(deallocate_block(t, ptr, index).trees)
<1> DEFINE t2 == deallocate_block(t, ptr, index).trees
<1>1. PICK stop \in index .. BitEnd :
        /\ t2 \in [BlockBits -> SUBSET Nat]
        /\ stop < BitEnd =>
             /\ OtherHalf(MergedNode(ptr, stop), stop) \notin t[stop]
             /\ FreeBlocks(t2) = (FreeBlocks(t) \ Consolidated(ptr, index, stop))
                                  \cup {<<MergedNode(ptr, stop), stop>>}
        /\ stop = BitEnd => FreeBlocks(t2) = FreeBlocks(t) \ Consolidated(ptr, index, stop)
  BY DeallocateFree
<1>2. stop \in Nat /\ stop <= BitEnd
  BY BlockBitsNat
<1> DEFINE m == MergedNode(ptr, stop)
<1>3. m \in Nat /\ Aligned(m, stop)
  BY <1>2, MergedNodeAround
<1> HIDE DEF t2, m
<1>4. ASSUME NEW i \in BlockBits, NEW a \in t2[i]
      PROVE  /\ a \in Nat
             /\ a \in t[i] \/ (a = m /\ i = stop /\ stop < BitEnd)
  <2>1. a \in Nat /\ <<a, i>> \in FreeBlocks(t2)
    BY <1>1, FreeBlocksMember
  <2>2. <<a, i>> \in FreeBlocks(t) \/ (<<a, i>> = <<m, stop>> /\ stop < BitEnd)
    BY <1>1, <1>2, <2>1, BlockBitsNat DEF m
  <2> QED BY <2>1, <2>2, FreeBlocksMember
<1>5. stop < BitEnd => OtherHalf(m, stop) \notin t[stop] /\ OtherHalf(m, stop) # m
  BY <1>1, <1>2, <1>3, OtherHalfInvolution DEF m
<1> SUFFICES ASSUME NEW i \in BlockBits, NEW a \in t2[i], OtherHalf(a, i) \in t2[i]
             PROVE  FALSE
  BY DEF Merged, t2
<1>6. CASE a = m /\ i = stop /\ stop < BitEnd
  BY <1>6, <1>4, <1>5
<1>7. CASE a \in t[i]
  <2>1. OtherHalf(a, i) = m /\ i = stop /\ stop < BitEnd
    BY <1>7, <1>4 DEF Merged
  <2>2. a \in Nat /\ Aligned(a, i)
    <3>1. <<a, i>> \in FreeBlocks(t)
      BY <1>7, FreeBlocksMember
    <3> QED BY <1>4, <3>1 DEF AllAligned
  <2>3. OtherHalf(m, stop) = a
    BY <1>2, <2>1, <2>2, OtherHalfInvolution
  <2> QED BY <1>5, <1>7, <2>1, <2>3
<1> QED BY <1>4, <1>6, <1>7

-----------------------------------------------------------------------------
(* What the operations do, in terms of sets of blocks: a block is split     *)
(* into the piece that is handed out and the blocks that stay free, and a   *)
(* freed block joins free ones to a larger block.                           *)
Splits(old, piece, rest) ==
  /\ rest \subseteq Block
  /\ piece \notin rest
  /\ Apart({piece} \cup rest)
  /\ Cover({piece} \cup rest) = BlockSpan(old)
  /\ AllAligned({piece} \cup rest)

(* divide_block splits a block into a part and free blocks.                *)
LEMMA DivideSplits ==
  ASSUME NEW t \in [BlockBits -> SUBSET Nat], NEW node \in Nat,
         NEW to \in BlockBits, NEW from \in Nat, to <= from, from <= BitEnd,
         Aligned(node, from)
  PROVE  LET t2 == divide_block(t, node, from, to)
         IN  /\ t2 \in [BlockBits -> SUBSET Nat]
             /\ \E rest : /\ Splits(<<node, from>>, <<node, to>>, rest)
                          /\ FreeBlocks(t2) = FreeBlocks(t) \cup rest
<1> DEFINE H == Halves(node, from, to)
           t2 == divide_block(t, node, from, to)
<1>1. Splits(<<node, from>>, <<node, to>>, H)
  <2>1. H \subseteq Block /\ <<node, to>> \notin H
    BY Divided
  <2>2. Apart({<<node, to>>} \cup H) /\ AllAligned({<<node, to>>} \cup H)
    BY Divided
  <2>3. Cover({<<node, to>>} \cup H) = BlockSpan(<<node, from>>)
    BY Divided DEF BlockSpan
  <2> QED BY <2>1, <2>2, <2>3 DEF Splits
<1>2. t2 \in [BlockBits -> SUBSET Nat] /\ FreeBlocks(t2) = FreeBlocks(t) \cup H
  BY DivideFree
<1> HIDE DEF H, t2
<1> QED BY <1>1, <1>2 DEF t2

(* allocate_block takes out one free block and splits it.                  *)
LEMMA AllocateSplits ==
  ASSUME NEW t \in [BlockBits -> SUBSET Nat], NEW index \in BlockBits,
         Donors(t, index) # {}, AllAligned(FreeBlocks(t))
  PROVE  LET res == allocate_block(t, index)
         IN  /\ res.trees \in [BlockBits -> SUBSET Nat]
             /\ res.node \in Nat
             /\ \E from, rest :
                  /\ <<res.node, from>> \in FreeBlocks(t)
                  /\ Splits(<<res.node, from>>, <<res.node, index>>, rest)
                  /\ FreeBlocks(res.trees) = (FreeBlocks(t) \ {<<res.node, from>>}) \cup rest
<1> DEFINE res == allocate_block(t, index)
<1>1. PICK from \in BlockBits :
        /\ index <= from
        /\ <<res.node, from>> \in FreeBlocks(t)
        /\ res.trees \in [BlockBits -> SUBSET Nat]
        /\ FreeBlocks(res.trees) = (FreeBlocks(t) \ {<<res.node, from>>})
                                     \cup Halves(res.node, from, index)
  BY AllocateFree
<1>2. from \in Nat /\ from <= BitEnd /\ index \in Nat
  BY BlockBitsNat, BuddyBits DEF BlockBits
<1> HIDE DEF res
<1>3. res.node \in Nat /\ Aligned(res.node, from)
  BY <1>1, FreeBlocksMember DEF Block, AllAligned
<1> DEFINE H == Halves(res.node, from, index)
<1>4. Splits(<<res.node, from>>, <<res.node, index>>, H)
  <2>1. H \subseteq Block /\ <<res.node, index>> \notin H
    BY <1>1, <1>2, <1>3, Divided
  <2>2. Apart({<<res.node, index>>} \cup H) /\ AllAligned({<<res.node, index>>} \cup H)
    BY <1>1, <1>2, <1>3, Divided
  <2>3. Cover({<<res.node, index>>} \cup H) = BlockSpan(<<res.node, from>>)
    BY <1>1, <1>2, <1>3, Divided DEF BlockSpan
  <2> QED BY <2>1, <2>2, <2>3 DEF Splits
<1>5. FreeBlocks(res.trees) = (FreeBlocks(t) \ {<<res.node, from>>}) \cup H
  BY <1>1
<1> HIDE DEF H
<1> QED BY <1>1, <1>3, <1>4, <1>5 DEF res

(* ... and what becomes of a block that is freed, from the free blocks     *)
(* before to those after.                                                  *)
Joins(blk, joined, merged) == Cover({blk} \cup joined) = BlockSpan(merged)

Rejoined(addr, index, before, after, node) ==
  \E joined \in SUBSET before, stop \in index .. BitEnd, m \in Nat :
    /\ Aligned(m, stop)
    /\ Joins(<<addr, index>>, joined, <<m, stop>>)
    /\ stop < BitEnd => node = nullptr /\ after = (before \ joined) \cup {<<m, stop>>}
    /\ stop = BitEnd => node = m /\ after = before \ joined

(* deallocate_block joins the block with free halves, into a free block or *)
(* one to return.                                                          *)
LEMMA DeallocateJoins ==
  ASSUME NEW t \in [BlockBits -> SUBSET Nat], NEW index \in BlockBits, NEW ptr \in Nat,
         Aligned(ptr, index)
  PROVE  LET res == deallocate_block(t, ptr, index)
         IN  /\ res.trees \in [BlockBits -> SUBSET Nat]
             /\ Rejoined(ptr, index, FreeBlocks(t), FreeBlocks(res.trees), res.node)
<1> DEFINE res == deallocate_block(t, ptr, index)
<1>1. PICK stop \in index .. BitEnd :
        /\ Consolidated(ptr, index, stop) \subseteq FreeBlocks(t)
        /\ res.trees \in [BlockBits -> SUBSET Nat]
        /\ stop < BitEnd =>
             /\ res.node = nullptr
             /\ FreeBlocks(res.trees) = (FreeBlocks(t) \ Consolidated(ptr, index, stop))
                                          \cup {<<MergedNode(ptr, stop), stop>>}
        /\ stop = BitEnd =>
             /\ res.node = MergedNode(ptr, BitEnd)
             /\ FreeBlocks(res.trees) = FreeBlocks(t) \ Consolidated(ptr, index, stop)
  BY DeallocateFree
<1>2. stop \in Nat /\ index \in Nat /\ index <= stop
  BY BlockBitsNat
<1> DEFINE m == MergedNode(ptr, stop)
           C == Consolidated(ptr, index, stop)
<1>3. m \in Nat /\ Aligned(m, stop)
  BY <1>2, MergedNodeAround
<1>4. Cover({<<ptr, index>>} \cup C) = BlockSpan(<<m, stop>>)
  BY <1>2, ConsolidatedCover DEF BlockSpan
<1>5. C \in SUBSET FreeBlocks(t)
  BY <1>1
<1>6. /\ stop < BitEnd => /\ res.node = nullptr
                          /\ FreeBlocks(res.trees) = (FreeBlocks(t) \ C) \cup {<<m, stop>>}
      /\ stop = BitEnd => res.node = m /\ FreeBlocks(res.trees) = FreeBlocks(t) \ C
  BY <1>1
<1>7. res.trees \in [BlockBits -> SUBSET Nat]
  BY <1>1
<1> HIDE DEF m, C, res
<1>8. Rejoined(ptr, index, FreeBlocks(t), FreeBlocks(res.trees), res.node)
  BY <1>3, <1>4, <1>5, <1>6 DEF Rejoined, Joins
<1> QED BY <1>7, <1>8 DEF res

-----------------------------------------------------------------------------
(* Of two aligned blocks that meet, the larger one contains the smaller.    *)
LEMMA Nested ==
  ASSUME NEW x \in Nat, NEW y \in Nat, NEW i \in Nat, NEW j \in Nat, i <= j,
         Aligned(x, i), Aligned(y, j), Span(x, i) \cap Span(y, j) # {}
  PROVE  Span(x, i) \subseteq Span(y, j)
<1>1. PICK z : z \in Span(x, i) /\ z \in Span(y, j)
  OBVIOUS
<1>2. z \in Nat
  BY <1>1, SpanSelf
<1> DEFINE m == MergedNode(x, j)
<1>3. m \in Nat /\ Aligned(m, j)
  BY MergedNodeAround
<1>4. Span(x, i) \subseteq Span(m, j)
  BY MergedCover
<1> HIDE DEF m
<1>5. one_at_bit(j) \in Nat
  BY OneAtBit
<1>6. MergedNode(z, j) = m
  BY <1>1, <1>2, <1>3, <1>4, <1>5, MergedNodeUnique DEF Span
<1>7. MergedNode(z, j) = y
  BY <1>1, <1>2, <1>5, MergedNodeUnique DEF Span
<1> QED BY <1>4, <1>6, <1>7

(* If free blocks that are merged cover an aligned block, one of them is as *)
(* large: otherwise the other half of the smallest of those inside it would *)
(* be free, too, or part of a larger one.                                   *)
LEMMA MergedIsLargest ==
  ASSUME NEW t \in [BlockBits -> SUBSET Nat], Merged(t),
         AllAligned(FreeBlocks(t)), Apart(FreeBlocks(t)),
         NEW a \in Nat, NEW n \in Nat, Aligned(a, n), Span(a, n) \subseteq Cover(FreeBlocks(t))
  PROVE  \E b \in FreeBlocks(t) : n <= b[2] /\ BlockSpan(b) \cap Span(a, n) # {}
<1> DEFINE F == FreeBlocks(t)
<1>1. F \subseteq Block /\ BlockBits \subseteq Nat
  BY FreeBlocksMember, BlockBitsNat
<1>2. \A b \in F : b[1] \in Nat /\ b[2] \in Nat /\ b[2] \in BlockBits /\ b = <<b[1], b[2]>>
  BY <1>1 DEF Block
<1> HIDE DEF F
<1>3. SUFFICES ASSUME \A b \in F : BlockSpan(b) \cap Span(a, n) # {} => b[2] < n
               PROVE  FALSE
  BY <1>2 DEF F
<1> DEFINE Sizes == {i \in Nat : \E b \in F : b[2] = i /\ BlockSpan(b) \cap Span(a, n) # {}}
<1>4. \A z \in Span(a, n) : \E b \in F : z \in BlockSpan(b) /\ b[2] \in Sizes
  BY <1>2 DEF Cover, F
<1>5. PICK i \in Sizes : \A j \in Sizes : i <= j
  <2>1. a \in Span(a, n)
    BY SpanSelf
  <2>2. Sizes # {} /\ Sizes \subseteq Nat
    BY <1>4, <2>1
  <2> HIDE DEF Sizes
  <2> QED BY <2>2, NatLeast
<1>6. PICK b \in F : b[2] = i /\ BlockSpan(b) \cap Span(a, n) # {}
  BY <1>5
<1> DEFINE x == b[1]
           o == OtherHalf(x, i)
           p == MergedNode(x, i + 1)
<1>7. x \in Nat /\ i \in Nat /\ Aligned(x, i) /\ i < n /\ i \in BlockBits /\ b = <<x, i>>
  BY <1>2, <1>3, <1>6 DEF AllAligned, F
<1>8. MergedNode(x, i) = x
  <2>1. x \in Span(x, i) /\ one_at_bit(i) \in Nat
    BY <1>7, SpanSelf, OneAtBit
  <2> HIDE DEF x
  <2> QED BY <1>7, <2>1, MergedNodeUnique DEF Span
<1>9. /\ o \in Nat /\ Aligned(o, i)
      /\ Span(p, i + 1) = Span(x, i) \cup Span(o, i)
  <2>1. /\ OtherHalf(MergedNode(x, i), i) \in Nat
        /\ Aligned(OtherHalf(MergedNode(x, i), i), i)
        /\ Span(MergedNode(x, i + 1), i + 1)
             = Span(MergedNode(x, i), i) \cup Span(OtherHalf(MergedNode(x, i), i), i)
    <3> HIDE DEF x
    <3> QED BY <1>7, MergeStep
  <2> QED BY <2>1, <1>8
<1>10. p \in Nat /\ Aligned(p, i + 1) /\ i + 1 \in Nat
  <2>1. i + 1 \in Nat
    BY <1>7
  <2> HIDE DEF x, Sizes
  <2> QED BY <1>7, <2>1, MergedNodeAround
<1>11. Span(p, i + 1) \subseteq Span(a, n)
  <2>1. Span(p, i + 1) \cap Span(a, n) # {}
    BY <1>6, <1>7, <1>9 DEF BlockSpan
  <2>2. i + 1 <= n
    BY <1>7
  <2> HIDE DEF p
  <2> QED BY <1>10, <2>1, <2>2, Nested
<1>12. x \in Span(p, i + 1) /\ o \in Span(p, i + 1) /\ x \in Span(x, i)
  <2> HIDE DEF x, o, p
  <2> QED BY <1>7, <1>9, SpanSelf
<1>13. PICK c \in F : o \in BlockSpan(c) /\ c[2] \in Sizes
  BY <1>4, <1>11, <1>12
<1>14. i <= c[2] /\ c[1] \in Nat /\ c[2] \in Nat /\ Aligned(c[1], c[2]) /\ c = <<c[1], c[2]>>
  BY <1>2, <1>5, <1>13 DEF AllAligned, F
<1> HIDE DEF x, o, p, Sizes
<1>15. CASE c[2] = i
  <2>1. c[1] = o
    <3>1. o \in Span(c[1], i) /\ o \in Span(o, i) /\ one_at_bit(i) \in Nat
      BY <1>7, <1>9, <1>13, <1>15, SpanSelf, OneAtBit DEF BlockSpan
    <3>2. MergedNode(o, i) = o
      BY <1>7, <1>9, <3>1, MergedNodeUnique DEF Span
    <3>3. MergedNode(o, i) = c[1]
      BY <1>7, <1>9, <1>14, <1>15, <3>1, MergedNodeUnique DEF Span
    <3> QED BY <3>2, <3>3
  <2>2. x \in t[i] /\ o \in t[i]
    BY <1>6, <1>7, <1>13, <1>14, <1>15, <2>1, FreeBlocksMember DEF F
  <2> QED BY <1>7, <2>2 DEF Merged, o
<1>16. CASE i < c[2]
  <2>1. Span(p, i + 1) \cap Span(c[1], c[2]) # {}
    BY <1>12, <1>13 DEF BlockSpan
  <2>2. i + 1 <= c[2]
    BY <1>7, <1>14, <1>16
  <2>3. Span(p, i + 1) \subseteq Span(c[1], c[2])
    BY <1>10, <1>14, <2>1, <2>2, Nested
  <2>4. x \in BlockSpan(c) /\ x \in BlockSpan(b)
    BY <1>6, <1>12, <2>3, <1>7 DEF BlockSpan, x
  <2>5. b # c
    BY <1>6, <1>7, <1>16
  <2> QED BY <2>4, <2>5 DEF Apart, F
<1> QED BY <1>7, <1>14, <1>15, <1>16

-----------------------------------------------------------------------------
(* The state predicates of the invariant, from its parts about L, F and G. *)
LEMMA IInvNext ==
  ASSUME trees' \in [BlockBits -> SUBSET Nat], granted' \subseteq Nat,
         GoodBlocks(live', FreeBlocks(trees'), granted'), Merged(trees')
  PROVE  IInv'
<1>1. TypeOK'
  BY DEF GoodBlocks, TypeOK, Block
<1>2. BlocksAligned'
  BY DEF GoodBlocks, BlocksAligned, AllAligned, Free
<1>3. BlocksDisjoint'
  BY DEF GoodBlocks, BlocksDisjoint, Apart, Free
<1>4. NothingLost'
  BY DEF GoodBlocks, NothingLost, Cover, Free
<1>5. Coalesced'
  BY DEF Merged, Coalesced
<1>6. (nullptr \notin granted)'
  BY DEF GoodBlocks, nullptr
<1> QED BY <1>1, <1>2, <1>3, <1>4, <1>5, <1>6 DEF IInv

(* The inductive invariant holds at first.                                 *)
LEMMA InitIInv == Init => IInv
<1> SUFFICES ASSUME Init PROVE IInv
  OBVIOUS
<1>1. trees \in [BlockBits -> SUBSET Nat] /\ \A i \in BlockBits : trees[i] = {}
  BY DEF Init, EmptyTrees
<1>2. Free = {}
  <2>1. \A a, i : <<a, i>> \notin Free
    BY <1>1, FreeBlocksMember DEF Free
  <2>2. Free \subseteq Block
    BY <1>1, FreeBlocksMember DEF Free
  <2> QED BY <2>1, <2>2 DEF Block
<1>3. live = {} /\ granted = {}
  BY DEF Init
<1> QED BY <1>1, <1>2, <1>3
        DEF IInv, TypeOK, BlocksAligned, BlocksDisjoint, NothingLost, Coalesced

(* An allocation that a tree can serve keeps it.                           *)
LEMMA AllocatePreserves ==
  ASSUME IInv, NEW index \in BlockBits, Allocate(index)
  PROVE  IInv'
<1> DEFINE res == allocate_block(trees, index)
<1>1. /\ trees \in [BlockBits -> SUBSET Nat] /\ granted \subseteq Nat
      /\ Merged(trees) /\ nullptr \notin granted
  BY DEF IInv, TypeOK, Coalesced, Merged
<1>2. GoodBlocks(live, Free, granted)
  BY GoodBlocksOfIInv
<1>3. /\ Donors(trees, index) # {}
      /\ trees' = res.trees
      /\ live' = live \cup {<<res.node, index>>}
      /\ granted' = granted
  BY DEF Allocate
<1>4. PICK from \in BlockBits :
        /\ index <= from
        /\ <<res.node, from>> \in FreeBlocks(trees)
        /\ res.trees \in [BlockBits -> SUBSET Nat]
        /\ FreeBlocks(res.trees) = (FreeBlocks(trees) \ {<<res.node, from>>})
                                     \cup Halves(res.node, from, index)
        /\ Merged(res.trees)
  BY <1>1, <1>3, AllocateFree, AllocateMerged, <1>2 DEF GoodBlocks, AllAligned, Free
<1> DEFINE Old == {<<res.node, from>>}
           NL == {<<res.node, index>>}
           NF == Halves(res.node, from, index)
<1>5. res.node \in Nat /\ Aligned(res.node, from)
  BY <1>2, <1>4 DEF GoodBlocks, AllAligned, Block, Free
<1>6. from \in Nat /\ from <= BitEnd /\ index \in Nat
  BY BlockBitsNat, BuddyBits DEF BlockBits
<1> HIDE DEF res
<1>7. /\ NF \subseteq Block /\ NL \subseteq Block /\ NL \cap NF = {} /\ Apart(NL \cup NF)
      /\ Cover(NL \cup NF) = Span(res.node, from) /\ AllAligned(NL \cup NF)
  <2>1. /\ NF \subseteq Block /\ NL \cap NF = {} /\ Apart(NL \cup NF)
        /\ Cover(NL \cup NF) = Span(res.node, from) /\ AllAligned(NL \cup NF)
    <3> DEFINE n == res.node
    <3>1. n \in Nat /\ Aligned(n, from) /\ from \in Nat /\ index <= from /\ from <= BitEnd
      BY <1>4, <1>5, <1>6
    <3> HIDE DEF n
    <3>2. /\ Halves(n, from, index) \subseteq Block
          /\ {<<n, index>>} \cap Halves(n, from, index) = {}
          /\ Apart({<<n, index>>} \cup Halves(n, from, index))
          /\ Cover({<<n, index>>} \cup Halves(n, from, index)) = Span(n, from)
          /\ AllAligned({<<n, index>>} \cup Halves(n, from, index))
      BY <3>1, Divided
    <3> QED BY <3>2 DEF n
  <2>2. NL \subseteq Block
    BY <1>5 DEF Block
  <2> QED BY <2>1, <2>2
<1>8. Cover(Old) = Span(res.node, from)
  BY DEF Cover, BlockSpan
<1>9. Old \subseteq live \cup Free /\ Old \cap live = {}
  BY <1>2, <1>4 DEF GoodBlocks, Free
<1>10. Cover(Old) \subseteq granted
  BY <1>2, <1>9 DEF GoodBlocks, Cover
<1>11. GoodBlocks((live \ Old) \cup NL, (Free \ Old) \cup NF,
                  (granted \ Cover(Old)) \cup Cover(NL \cup NF))
  <2> HIDE DEF Old, NL, NF
  <2>1. Cover(NL \cup NF) \cap (granted \ Cover(Old)) = {} /\ nullptr \notin Cover(NL \cup NF)
    BY <1>1, <1>7, <1>8, <1>10
  <2> QED BY <1>2, <1>7, <1>9, <2>1, GoodReplacement
<1>12. /\ live' = (live \ Old) \cup NL
       /\ FreeBlocks(trees') = (Free \ Old) \cup NF
       /\ granted' = (granted \ Cover(Old)) \cup Cover(NL \cup NF)
  BY <1>3, <1>4, <1>7, <1>8, <1>9, <1>10 DEF Free, res
<1>13. GoodBlocks(live', FreeBlocks(trees'), granted')
  BY <1>11, <1>12
<1>14. trees' \in [BlockBits -> SUBSET Nat] /\ Merged(trees') /\ granted' \subseteq Nat
  BY <1>1, <1>3, <1>4 DEF res
<1> QED BY <1>13, <1>14, IInvNext

(* A refill is no smaller than the request and no larger than the largest  *)
(* block.                                                                  *)
LEMMA RefillSize ==
  ASSUME NEW index \in BlockBits
  PROVE  /\ RefillSizeBits(index) \in Nat
         /\ index <= RefillSizeBits(index)
         /\ RefillSizeBits(index) <= BitEnd
<1>1. /\ index \in Nat /\ RefillBits \in Nat /\ BitEnd \in Nat
      /\ index <= BitEnd /\ RefillBits <= BitEnd
  BY BuddyBits, BuddyRefill DEF BlockBits
<1>2. \E x \in {index, RefillBits} : \A y \in {index, RefillBits} : x >= y
  BY <1>1
<1>3. /\ RefillSizeBits(index) \in {index, RefillBits}
      /\ \A y \in {index, RefillBits} : RefillSizeBits(index) >= y
  BY <1>2 DEF RefillSizeBits, Max
<1> QED BY <1>1, <1>3

(* An allocation with a refill keeps it, whether or not the refill         *)
(* succeeds.                                                               *)
LEMMA AllocateRefillPreserves ==
  ASSUME IInv, NEW index \in BlockBits, AllocateRefill(index)
  PROVE  IInv'
<1> DEFINE bits == RefillSizeBits(index)
<1>1. /\ trees \in [BlockBits -> SUBSET Nat] /\ granted \subseteq Nat
      /\ Merged(trees) /\ nullptr \notin granted
  BY DEF IInv, TypeOK, Coalesced, Merged
<1>2. GoodBlocks(live, Free, granted)
  BY GoodBlocksOfIInv
<1>3. PICK block \in Refills(bits) :
        /\ trees' = divide_block(trees, block, bits, index)
        /\ live' = live \cup {<<block, index>>}
        /\ granted' = granted \cup Span(block, bits)
  BY DEF AllocateRefill
<1>4. bits \in Nat /\ index <= bits /\ bits <= BitEnd /\ index \in Nat
  BY RefillSize, BlockBitsNat
<1> HIDE DEF bits
<1>5. /\ block \in Nat /\ block # nullptr
      /\ Aligned(block, bits) /\ Span(block, bits) \cap granted = {}
  BY <1>3, BuddyRefill DEF Refills
<1>6. \A i \in index .. bits - 1 : trees[i] = {}
  <2>1. \A i \in index .. bits - 1 : i \in index .. BitEnd - 1
    BY <1>4, BuddyBits
  <2>2. Donors(trees, index) = {}
    BY DEF AllocateRefill
  <2> QED BY <2>1, <2>2 DEF Donors
<1> DEFINE NL == {<<block, index>>}
           NF == Halves(block, bits, index)
<1>7. /\ NF \subseteq Block /\ NL \cap NF = {} /\ Apart(NL \cup NF)
      /\ Cover(NL \cup NF) = Span(block, bits) /\ AllAligned(NL \cup NF)
  BY <1>4, <1>5, Divided
<1>8. NL \subseteq Block
  BY <1>5 DEF Block
<1>9. nullptr \notin Span(block, bits) /\ Span(block, bits) \subseteq Nat
  BY <1>4, <1>5, OneAtBit DEF Span, nullptr
<1>10. Cover({}) = {}
  BY DEF Cover
<1>11. GoodBlocks((live \ {}) \cup NL, (Free \ {}) \cup NF,
                  (granted \ Cover({})) \cup Cover(NL \cup NF))
  <2> HIDE DEF NL, NF
  <2>1. Cover(NL \cup NF) \cap (granted \ Cover({})) = {} /\ nullptr \notin Cover(NL \cup NF)
    BY <1>5, <1>7, <1>9
  <2> QED BY <1>2, <1>7, <1>8, <2>1, GoodReplacement
<1>12. /\ trees' \in [BlockBits -> SUBSET Nat]
       /\ FreeBlocks(trees') = Free \cup NF
  BY <1>1, <1>3, <1>4, <1>5, DivideFree DEF Free
<1>13. Merged(trees')
  BY <1>1, <1>3, <1>4, <1>5, <1>6, DivideMerged
<1>14. /\ live' = (live \ {}) \cup NL
       /\ FreeBlocks(trees') = (Free \ {}) \cup NF
       /\ granted' = (granted \ Cover({})) \cup Cover(NL \cup NF)
  <2> HIDE DEF NF
  <2> QED BY <1>3, <1>7, <1>10, <1>12
<1>15. GoodBlocks(live', FreeBlocks(trees'), granted')
  BY <1>11, <1>14
<1>16. granted' \subseteq Nat
  BY <1>1, <1>3, <1>9
<1> QED BY <1>12, <1>13, <1>15, <1>16, IInvNext

(* A deallocation keeps it.                                                *)
LEMMA DeallocatePreserves ==
  ASSUME IInv, NEW ptr, NEW index, Deallocate(ptr, index)
  PROVE  IInv'
<1> DEFINE res == deallocate_block(trees, ptr, index)
<1>1. /\ trees \in [BlockBits -> SUBSET Nat] /\ granted \subseteq Nat
      /\ Merged(trees) /\ nullptr \notin granted
  BY DEF IInv, TypeOK, Coalesced, Merged
<1>2. GoodBlocks(live, Free, granted)
  BY GoodBlocksOfIInv
<1>3. /\ <<ptr, index>> \in live
      /\ trees' = res.trees
      /\ live' = live \ {<<ptr, index>>}
      /\ granted' = IF res.node = nullptr THEN granted
                                          ELSE granted \ Span(res.node, BitEnd)
  BY DEF Deallocate
<1>4. /\ ptr \in Nat /\ index \in BlockBits /\ index \in Nat /\ Aligned(ptr, index)
      /\ index < BitEnd /\ BitEnd \in Nat
  BY <1>2, <1>3, BlockBitsNat, BuddyBits DEF GoodBlocks, Block, AllAligned, BlockBits
<1>5. PICK stop \in index .. BitEnd :
        /\ Consolidated(ptr, index, stop) \subseteq Free
        /\ res.trees \in [BlockBits -> SUBSET Nat]
        /\ stop < BitEnd =>
             /\ res.node = nullptr
             /\ OtherHalf(MergedNode(ptr, stop), stop) \notin trees[stop]
             /\ FreeBlocks(res.trees) = (Free \ Consolidated(ptr, index, stop))
                                          \cup {<<MergedNode(ptr, stop), stop>>}
        /\ stop = BitEnd =>
             /\ res.node = MergedNode(ptr, BitEnd)
             /\ FreeBlocks(res.trees) = Free \ Consolidated(ptr, index, stop)
  BY <1>1, <1>4, DeallocateFree DEF Free
<1> DEFINE C == Consolidated(ptr, index, stop)
           m == MergedNode(ptr, stop)
           Old == {<<ptr, index>>} \cup C
<1> HIDE DEF res
<1>6. stop \in Nat /\ index <= stop /\ stop <= BitEnd
  BY <1>4, <1>5
<1>7. m \in Nat /\ Aligned(m, stop)
  BY <1>4, <1>6, MergedNodeAround
<1>8. Cover(Old) = Span(m, stop)
  BY <1>4, <1>6, ConsolidatedCover
<1>9. /\ Old \subseteq live \cup Free
      /\ live \ Old = live \ {<<ptr, index>>}
      /\ Free \ Old = Free \ C
  BY <1>2, <1>3, <1>5 DEF GoodBlocks
<1>10. Cover(Old) \subseteq granted
  BY <1>2, <1>9 DEF GoodBlocks, Cover
<1>11. nullptr \notin Span(m, stop) /\ m \in Span(m, stop)
  BY <1>1, <1>6, <1>7, <1>8, <1>10, SpanSelf
<1> HIDE DEF C, m, Old
<1>12. trees' \in [BlockBits -> SUBSET Nat] /\ granted' \subseteq Nat
  BY <1>1, <1>3, <1>5
<1>15. Merged(trees')
  <2>1. AllAligned(FreeBlocks(trees))
    BY <1>2 DEF GoodBlocks, AllAligned, Free
  <2> QED BY <1>1, <1>3, <1>4, <2>1, DeallocateMerged DEF res
<1>13. CASE stop = BitEnd
  <2>1. GoodBlocks((live \ Old) \cup {}, (Free \ Old) \cup {},
                   (granted \ Cover(Old)) \cup Cover({} \cup {}))
    <3>1. Cover({} \cup {}) = {} /\ Apart({} \cup {}) /\ AllAligned({} \cup {})
      BY DEF Cover, Apart, AllAligned
    <3> QED BY <1>2, <1>9, <3>1, GoodReplacement
  <2>2. Cover({} \cup {}) = {}
    BY DEF Cover
  <2>3. res.node = m /\ m # nullptr
    BY <1>5, <1>11, <1>13 DEF m
  <2>4. granted' = granted \ Cover(Old)
    BY <1>3, <1>8, <1>13, <2>3
  <2>5. FreeBlocks(trees') = Free \ Old
    BY <1>3, <1>5, <1>9, <1>13 DEF C
  <2>6. GoodBlocks(live', FreeBlocks(trees'), granted')
    BY <1>3, <1>9, <2>1, <2>2, <2>4, <2>5
  <2> QED BY <1>12, <1>15, <2>6, IInvNext
<1>14. CASE stop < BitEnd
  <2> DEFINE New == {} \cup {<<m, stop>>}
  <2>1. stop \in BlockBits /\ <<m, stop>> \in Block
    BY <1>4, <1>6, <1>7, <1>14, BuddyBits DEF BlockBits, Block
  <2>2. Cover(New) = Span(m, stop) /\ Apart(New) /\ AllAligned(New)
    BY <1>7 DEF Cover, Apart, AllAligned, BlockSpan
  <2>3. GoodBlocks((live \ Old) \cup {}, (Free \ Old) \cup {<<m, stop>>},
                   (granted \ Cover(Old)) \cup Cover(New))
    BY <1>2, <1>8, <1>9, <1>11, <2>1, <2>2, GoodReplacement, ZenonT(40)
  <2>4. (granted \ Cover(Old)) \cup Cover(New) = granted
    BY <1>8, <1>10, <2>2
  <2>5. granted' = granted
    BY <1>3, <1>5, <1>14
  <2>6. FreeBlocks(trees') = (Free \ Old) \cup {<<m, stop>>}
    BY <1>3, <1>5, <1>9, <1>14 DEF C, m
  <2>7. GoodBlocks(live', FreeBlocks(trees'), granted')
    BY <1>3, <1>9, <2>3, <2>4, <2>5, <2>6
  <2> QED BY <1>12, <1>15, <2>7, IInvNext
<1> QED BY <1>4, <1>6, <1>13, <1>14

-----------------------------------------------------------------------------
(* The invariant is inductive, whatever sizes the buddy keeps and wherever  *)
(* the upper range grants its blocks.                                       *)
THEOREM Inductive == Spec => []IInv
<1>1. Init => IInv
  BY InitIInv
<1>2. IInv /\ [Next]_vars => IInv'
  <2> SUFFICES ASSUME IInv, [Next]_vars PROVE IInv'
    OBVIOUS
  <2>1. ASSUME NEW index \in BlockBits, Allocate(index) PROVE IInv'
    BY <2>1, AllocatePreserves
  <2>2. ASSUME NEW index \in BlockBits, AllocateRefill(index) PROVE IInv'
    BY <2>2, AllocateRefillPreserves
  <2>3. ASSUME NEW blk \in live, Deallocate(blk[1], blk[2]) PROVE IInv'
    BY <2>3, DeallocatePreserves
  <2>4. CASE UNCHANGED vars
    BY <2>4 DEF vars, IInv, TypeOK, BlocksAligned, BlocksDisjoint, NothingLost,
                Coalesced, Free
  <2> QED BY <2>1, <2>2, <2>3, <2>4 DEF Next
<1> QED BY <1>1, <1>2, PTL DEF Spec

(* The trees and the blocks that callers hold always have the types that   *)
(* the code gives them.                                                    *)
THEOREM TypeCorrect == Spec => []TypeOK
<1>1. IInv => TypeOK
  BY DEF IInv
<1> QED BY <1>1, Inductive, PTL

(* Memory handed out by allocate_block is never free at the same time and  *)
(* never handed out twice.                                                 *)
THEOREM Disjointness == Spec => []BlocksDisjoint
<1>1. IInv => BlocksDisjoint
  BY DEF IInv
<1> QED BY <1>1, Inductive, PTL

(* The free and the held blocks cover exactly what the upper range granted. *)
THEOREM Conservation == Spec => []NothingLost
<1>1. IInv => NothingLost
  BY DEF IInv
<1> QED BY <1>1, Inductive, PTL

(* Every block is aligned to its size, so flipping one bit of its address  *)
(* does give the address of its other half.                                *)
THEOREM Alignment == Spec => []BlocksAligned
<1>1. IInv => BlocksAligned
  BY DEF IInv
<1> QED BY <1>1, Inductive, PTL

(* No tree ever holds both halves of a block.                              *)
THEOREM FullyMerged == Spec => []Coalesced
<1>1. IInv => Coalesced
  BY DEF IInv
<1> QED BY <1>1, Inductive, PTL

(* The upper range is asked for memory only if no tree holds a block of the *)
(* requested size or larger, and then no two free blocks make one up.       *)
THEOREM RefillsJustified == Spec => RefillOnlyWhenExhausted
<1>1. IInv => \A index \in BlockBits : AllocateRefill(index) =>
                \A a \in FreeAddrs : Aligned(a, index) => ~(Span(a, index) \subseteq FreeAddrs)
  <2> SUFFICES ASSUME IInv, NEW index \in BlockBits, AllocateRefill(index),
                      NEW a \in FreeAddrs, Aligned(a, index), Span(a, index) \subseteq FreeAddrs
               PROVE  FALSE
    OBVIOUS
  <2>1. trees \in [BlockBits -> SUBSET Nat] /\ Merged(trees) /\ index \in Nat
    BY BlockBitsNat DEF IInv, TypeOK, Coalesced, Merged
  <2>2. AllAligned(Free) /\ Apart(Free) /\ Free \subseteq Block
    BY GoodBlocksOfIInv DEF GoodBlocks, AllAligned, Apart
  <2>3. FreeAddrs = Cover(Free)
    BY DEF FreeAddrs, Cover
  <2>4. a \in Nat
    BY <2>2, <2>3, BlockSpanNat DEF Cover
  <2>5. PICK b \in Free : index <= b[2]
    BY <2>1, <2>2, <2>3, <2>4, MergedIsLargest DEF Free
  <2>6. b[2] \in BlockBits /\ b[1] \in trees[b[2]] /\ b[2] \in index .. BitEnd - 1
    BY <2>1, <2>2, <2>5, FreeBlocksMember, BlockBitsNat DEF Free, Block, BlockBits, FreeBlocks
  <2>7. Donors(trees, index) = {}
    BY DEF AllocateRefill
  <2> QED BY <2>6, <2>7 DEF Donors
<1> QED BY <1>1, Inductive, PTL DEF RefillOnlyWhenExhausted

-----------------------------------------------------------------------------
(* A block that an operation adds to live is a legal answer of Allocator:  *)
(* the invariant holds after the step as well.                             *)
LEMMA HandOut ==
  ASSUME IInv, IInv', NEW blk, live' = live \cup {blk}
  PROVE  Abstract!Allocate \/ live' = live
<1>1. CASE blk \in live
  BY <1>1
<1>2. CASE blk \notin live
  <2>1. /\ blk \in live' /\ live \subseteq live'
        /\ live' \subseteq Nat \X BlockBits
        /\ \A held \in live : held # blk => BlockSpan(held) \cap BlockSpan(blk) = {}
        /\ Aligned(blk[1], blk[2])
    BY DEF IInv, TypeOK, BlocksDisjoint, BlocksAligned
  <2>2. blk[1] \in Nat /\ blk[2] \in BlockBits
    BY <2>1
  <2>3. blk[1] # nullptr
    <3>1. BlockSpan(blk) \subseteq granted'
      BY <2>1 DEF IInv, NothingLost
    <3>2. blk[1] \in BlockSpan(blk)
      BY <2>1, BlockSpanNat DEF Block
    <3> QED BY <3>1, <3>2 DEF IInv, nullptr
  <2>4. \A b \in live \cup {blk} : Abstract!Addresses(b) = BlockSpan(b)
    BY DEF Abstract!Addresses, BlockSpan, Span, one_at_bit
  <2>5. blk[1] % (2 ^ blk[2]) = 0
    BY <2>1 DEF Aligned, one_at_bit
  <2>6. \A held \in live : Abstract!Addresses(held) \cap Abstract!Addresses(blk) = {}
    BY <1>2, <2>1, <2>4
  <2>7. blk \in live' \ live
    BY <1>2, <2>1
  <2>8. blk[1] \in Nat \ {0}
    BY <2>2, <2>3 DEF nullptr
  <2> QED BY <2>2, <2>5, <2>6, <2>7, <2>8 DEF Abstract!Allocate
<1> QED BY <1>1, <1>2

(* The buddy implements the specification of an allocator: what it hands   *)
(* out is aligned, is not null and meets no block that is still held.      *)
THEOREM Refinement == Spec => ImplementsAllocator
<1>1. Init => Abstract!Init
  BY DEF Init, Abstract!Init
<1>2. IInv /\ IInv' /\ [Next]_vars => [Abstract!Next]_live
  <2> SUFFICES ASSUME IInv, IInv', [Next]_vars PROVE [Abstract!Next]_live
    OBVIOUS
  <2>1. ASSUME NEW index \in BlockBits, Allocate(index) PROVE Abstract!Allocate \/ live' = live
    BY <2>1, HandOut DEF Allocate
  <2>2. ASSUME NEW index \in BlockBits, AllocateRefill(index)
        PROVE  Abstract!Allocate \/ live' = live
    <3>1. PICK block : live' = live \cup {<<block, index>>}
      BY <2>2 DEF AllocateRefill
    <3> QED BY <3>1, HandOut
  <2>3. ASSUME NEW blk \in live, Deallocate(blk[1], blk[2]) PROVE Abstract!Free
    <3>1. blk = <<blk[1], blk[2]>>
      BY DEF IInv, TypeOK
    <3>2. live' = live \ {blk}
      BY <2>3, <3>1 DEF Deallocate
    <3> QED BY <3>2 DEF Abstract!Free
  <2>4. CASE UNCHANGED vars
    BY <2>4 DEF vars
  <2> QED BY <2>1, <2>2, <2>3, <2>4 DEF Next, Abstract!Next
<1> QED BY <1>1, <1>2, Inductive, PTL DEF Spec, ImplementsAllocator, Abstract!Spec
=============================================================================
