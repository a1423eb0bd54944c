----------------------------- MODULE RangeProofs -----------------------------
(***************************************************************************)
(* Theorems about the pipeline of ranges, for any number of threads and    *)
(* every size of block, page, refill and address space: whatever the       *)
(* threads interleave, every address of mapped memory has one owner, held  *)
(* memory is writable, and the statistics are exact.                       *)
(*                                                                         *)
(* Every step trades some owners of blocks for others of the same          *)
(* addresses; what the two buddies trade is taken from the lemmas on       *)
(* BuddyOps, the memory that a reservation adds from the arithmetic of     *)
(* reserve_aligned.                                                        *)
(***************************************************************************)
EXTENDS Range, DataLemmas

(* The lemmas on the operators of BuddyOps, for the sizes of each buddy.   *)
(* They are about no behaviour, so the variables of Buddy are immaterial.  *)
SmallLemmas ==
  INSTANCE BuddyProofs WITH BitBegin <- SmallBits, BitEnd <- PageBits,
                            RefillBits <- PageBits, Chunks <- {},
                            trees <- Small!EmptyTrees, live <- {}, granted <- {}
LargeLemmas ==
  INSTANCE BuddyProofs WITH BitBegin <- PageBits, BitEnd <- AddressBits,
                            RefillBits <- BitRefill, Chunks <- {},
                            trees <- Large!EmptyTrees, live <- {}, granted <- {}

Span(addr, bits) == addr .. addr + 2 ^ bits - 1
BlockSpan(blk) == Span(blk[1], blk[2])
Aligned(addr, bits) == addr % (2 ^ bits) = 0
AllAligned(B) == \A b \in B : Aligned(b[1], b[2])
Apart(B) == \A a, b \in B : a # b => BlockSpan(a) \cap BlockSpan(b) = {}
Cover(B) == UNION {BlockSpan(b) : b \in B}

(* The sizes of blocks, pages, refills and addresses, as RangeSizes orders *)
(* them.                                                                   *)
LEMMA SizesAre ==
  /\ SmallBits \in Nat /\ PageBits \in Nat /\ BitRefill \in Nat /\ AddressBits \in Nat
  /\ SmallBits < PageBits /\ PageBits <= BitRefill /\ BitRefill < AddressBits
  /\ Sizes \subseteq SmallBits .. AddressBits - 1 /\ Sizes \subseteq Nat
BY RangeSizes

(* The small buddy has the sizes that the lemmas on buddies assume.        *)
LEMMA SmallAssumed == SmallLemmas!BuddyBits /\ SmallLemmas!BuddyRefill
BY SizesAre DEF SmallLemmas!BuddyBits, SmallLemmas!BuddyRefill

(* And so has the large one.                                               *)
LEMMA LargeAssumed == LargeLemmas!BuddyBits /\ LargeLemmas!BuddyRefill
BY SizesAre DEF LargeLemmas!BuddyBits, LargeLemmas!BuddyRefill

(* An operation splits a block into the one it hands out and those that    *)
(* stay free.                                                              *)
Splits(old, piece, rest) ==
  /\ rest \subseteq Nat \X Nat
  /\ piece \notin rest
  /\ Apart({piece} \cup rest)
  /\ Cover({piece} \cup rest) = BlockSpan(old)
  /\ AllAligned({piece} \cup rest)

(* ... or joins the block that it takes with free ones.                    *)
Joins(blk, joined, merged) == Cover({blk} \cup joined) = BlockSpan(merged)

(* What a buddy makes of a block that is freed, from the free blocks before *)
(* to those after.                                                          *)
Rejoined(addr, index, limit, before, after, node) ==
  \E joined \in SUBSET before, stop \in index .. limit, m \in Nat :
    /\ Aligned(m, stop)
    /\ Joins(<<addr, index>>, joined, <<m, stop>>)
    /\ stop < limit => node = nullptr /\ after = (before \ joined) \cup {<<m, stop>>}
    /\ stop = limit => node = m /\ after = before \ joined

-----------------------------------------------------------------------------
(* small buddies: the operators of Small are those of SmallLemmas. *)
LEMMA SmallSame ==
  /\ Small!BlockBits = SmallLemmas!BlockBits /\ Small!BlockBits = SmallBits .. PageBits - 1
  /\ \A t : Small!FreeBlocks(t) = SmallLemmas!FreeBlocks(t)
  /\ \A a, i : SmallLemmas!Aligned(a, i) <=> Aligned(a, i)
  /\ \A B : SmallLemmas!AllAligned(B) <=> AllAligned(B)
  /\ \A B : SmallLemmas!Apart(B) <=> Apart(B)
  /\ \A B : SmallLemmas!Cover(B) = Cover(B)
  /\ \A b : SmallLemmas!BlockSpan(b) = BlockSpan(b)
<1>1. \A b : SmallLemmas!BlockSpan(b) = BlockSpan(b)
  BY DEF SmallLemmas!BlockSpan, SmallLemmas!Span, SmallLemmas!one_at_bit, BlockSpan, Span
<1>2. \A a, i : SmallLemmas!Aligned(a, i) <=> Aligned(a, i)
  BY DEF SmallLemmas!Aligned, SmallLemmas!one_at_bit, Aligned
<1>3. \A B : SmallLemmas!AllAligned(B) <=> AllAligned(B)
  BY <1>2 DEF SmallLemmas!AllAligned, AllAligned
<1>4. \A B : SmallLemmas!Apart(B) <=> Apart(B)
  BY <1>1 DEF SmallLemmas!Apart, Apart
<1>5. \A B : SmallLemmas!Cover(B) = Cover(B)
  BY <1>1 DEF SmallLemmas!Cover, Cover
<1>6. Small!BlockBits = SmallLemmas!BlockBits /\ Small!BlockBits = SmallBits .. PageBits - 1
  BY DEF Small!BlockBits, SmallLemmas!BlockBits
<1>7. \A t : Small!FreeBlocks(t) = SmallLemmas!FreeBlocks(t)
  BY <1>6 DEF Small!FreeBlocks, SmallLemmas!FreeBlocks
<1> QED BY <1>1, <1>2, <1>3, <1>4, <1>5, <1>6, <1>7

(* A block split by the small buddy, in the terms of this module.          *)
LEMMA SmallSplits ==
  ASSUME NEW old, NEW piece, NEW rest, SmallLemmas!Splits(old, piece, rest)
  PROVE  Splits(old, piece, rest) /\ rest \subseteq Nat \X Small!BlockBits
<1>1. SmallLemmas!Block \subseteq Nat \X Nat /\ SmallLemmas!Block = Nat \X Small!BlockBits
  BY SmallSame, SizesAre DEF SmallLemmas!Block
<1> QED BY <1>1, SmallSame DEF SmallLemmas!Splits, Splits

(* The free blocks of a small tree are blocks of its sizes.                *)
LEMMA SmallFree ==
  ASSUME NEW t \in [Small!BlockBits -> SUBSET Nat]
  PROVE  /\ Small!FreeBlocks(t) \subseteq Nat \X Small!BlockBits
         /\ \A a, i : <<a, i>> \in Small!FreeBlocks(t) <=> i \in Small!BlockBits /\ a \in t[i]
<1>1. t \in [SmallLemmas!BlockBits -> SUBSET Nat]
  BY SmallSame
<1>2. /\ SmallLemmas!FreeBlocks(t) \subseteq SmallLemmas!Block
      /\ \A a, i : <<a, i>> \in SmallLemmas!FreeBlocks(t) <=> i \in SmallLemmas!BlockBits /\ a \in t[i]
  BY <1>1, SmallAssumed, SmallLemmas!FreeBlocksMember
<1> QED BY <1>2, SmallSame DEF SmallLemmas!Block

(* divide_block of the small buddy splits a block: its first part is left  *)
(* out and the rest is free.                                               *)
LEMMA SmallDivideSplits ==
  ASSUME NEW t \in [Small!BlockBits -> SUBSET Nat], NEW node \in Nat,
         NEW to \in Small!BlockBits, NEW from \in Nat, to <= from, from <= PageBits,
         Aligned(node, from)
  PROVE  LET t2 == Small!divide_block(t, node, from, to)
         IN  /\ t2 \in [Small!BlockBits -> SUBSET Nat]
             /\ \E rest : /\ Splits(<<node, from>>, <<node, to>>, rest)
                          /\ rest \subseteq Nat \X Small!BlockBits
                          /\ Small!FreeBlocks(t2) = Small!FreeBlocks(t) \cup rest
<1> DEFINE t2 == SmallLemmas!divide_block(t, node, from, to)
<1>1. Small!divide_block(t, node, from, to) = t2
  BY SmallSame DEF Small!divide_block, SmallLemmas!divide_block, Small!one_at_bit, SmallLemmas!one_at_bit
<1>2. /\ t \in [SmallLemmas!BlockBits -> SUBSET Nat] /\ to \in SmallLemmas!BlockBits
      /\ SmallLemmas!Aligned(node, from)
  BY SmallSame
<1>3. /\ t2 \in [SmallLemmas!BlockBits -> SUBSET Nat]
      /\ \E rest : /\ SmallLemmas!Splits(<<node, from>>, <<node, to>>, rest)
                   /\ SmallLemmas!FreeBlocks(t2) = SmallLemmas!FreeBlocks(t) \cup rest
  BY <1>2, SmallAssumed, SmallLemmas!DivideSplits
<1> HIDE DEF t2
<1> QED BY <1>1, <1>3, SmallSame, SmallSplits

(* allocate_block of the small buddy takes out a free block and splits it. *)
LEMMA SmallAllocateSplits ==
  ASSUME NEW t \in [Small!BlockBits -> SUBSET Nat], NEW index \in Small!BlockBits,
         Small!Donors(t, index) # {}, AllAligned(Small!FreeBlocks(t))
  PROVE  LET res == Small!allocate_block(t, index)
         IN  /\ res.trees \in [Small!BlockBits -> SUBSET Nat]
             /\ res.node \in Nat
             /\ \E from, rest :
                  /\ <<res.node, from>> \in Small!FreeBlocks(t)
                  /\ Splits(<<res.node, from>>, <<res.node, index>>, rest)
                  /\ rest \subseteq Nat \X Small!BlockBits
                  /\ Small!FreeBlocks(res.trees)
                       = (Small!FreeBlocks(t) \ {<<res.node, from>>}) \cup rest
<1> DEFINE res == SmallLemmas!allocate_block(t, index)
           out == Small!allocate_block(t, index)
<1>1. \A u, node, from : Small!divide_block(u, node, from, index) = SmallLemmas!divide_block(u, node, from, index)
  BY SmallSame DEF Small!divide_block, SmallLemmas!divide_block, Small!one_at_bit, SmallLemmas!one_at_bit
<1>2. Small!Donors(t, index) = SmallLemmas!Donors(t, index)
  BY DEF Small!Donors, SmallLemmas!Donors
<1>3. out = res
  BY <1>1, <1>2, ZenonT(40) DEF Small!allocate_block, SmallLemmas!allocate_block, Small!Min, SmallLemmas!Min
<1>4. /\ t \in [SmallLemmas!BlockBits -> SUBSET Nat] /\ index \in SmallLemmas!BlockBits
      /\ SmallLemmas!Donors(t, index) # {} /\ SmallLemmas!AllAligned(SmallLemmas!FreeBlocks(t))
  BY <1>2, SmallSame
<1>5. /\ res.trees \in [SmallLemmas!BlockBits -> SUBSET Nat]
      /\ res.node \in Nat
      /\ \E from, rest :
           /\ <<res.node, from>> \in SmallLemmas!FreeBlocks(t)
           /\ SmallLemmas!Splits(<<res.node, from>>, <<res.node, index>>, rest)
           /\ SmallLemmas!FreeBlocks(res.trees) = (SmallLemmas!FreeBlocks(t) \ {<<res.node, from>>}) \cup rest
  BY <1>4, SmallAssumed, SmallLemmas!AllocateSplits
<1> HIDE DEF res
<1>6. PICK from, rest :
        /\ <<res.node, from>> \in SmallLemmas!FreeBlocks(t)
        /\ SmallLemmas!Splits(<<res.node, from>>, <<res.node, index>>, rest)
        /\ SmallLemmas!FreeBlocks(res.trees) = (SmallLemmas!FreeBlocks(t) \ {<<res.node, from>>}) \cup rest
  BY <1>5
<1>7. /\ <<out.node, from>> \in Small!FreeBlocks(t)
      /\ Small!FreeBlocks(out.trees) = (Small!FreeBlocks(t) \ {<<out.node, from>>}) \cup rest
  BY <1>3, <1>6, SmallSame
<1>8. /\ Splits(<<out.node, from>>, <<out.node, index>>, rest)
      /\ rest \subseteq Nat \X Small!BlockBits
  BY <1>3, <1>6, SmallSplits
<1>9. out.trees \in [Small!BlockBits -> SUBSET Nat] /\ out.node \in Nat
  BY <1>3, <1>5, SmallSame
<1> HIDE DEF out
<1> QED BY <1>7, <1>8, <1>9 DEF out

(* deallocate_block of the small buddy joins the block with free halves,   *)
(* into a free block or a page to return.                                  *)
LEMMA SmallDeallocateJoins ==
  ASSUME NEW t \in [Small!BlockBits -> SUBSET Nat], NEW index \in Small!BlockBits,
         NEW addr \in Nat, Aligned(addr, index)
  PROVE  LET res == Small!deallocate_block(t, addr, index)
         IN  /\ res.trees \in [Small!BlockBits -> SUBSET Nat]
             /\ Rejoined(addr, index, PageBits,
                         Small!FreeBlocks(t), Small!FreeBlocks(res.trees), res.node)
<1> DEFINE res == SmallLemmas!deallocate_block(t, addr, index)
           out == Small!deallocate_block(t, addr, index)
<1>1. out = res
  <2>1. \A p, i : Small!MergedNode(p, i) = SmallLemmas!MergedNode(p, i)
    BY DEF Small!MergedNode, SmallLemmas!MergedNode, Small!one_at_bit, SmallLemmas!one_at_bit
  <2>2. \A p, i : Small!OtherHalf(p, i) = SmallLemmas!OtherHalf(p, i)
    BY DEF Small!OtherHalf, SmallLemmas!OtherHalf, Small!one_at_bit, SmallLemmas!one_at_bit
  <2>3. Small!StopSizes(t, addr, index) = SmallLemmas!StopSizes(t, addr, index)
    BY <2>1, <2>2 DEF Small!StopSizes, SmallLemmas!StopSizes
  <2>4. Small!Min(Small!StopSizes(t, addr, index)) = SmallLemmas!Min(SmallLemmas!StopSizes(t, addr, index))
    BY <2>3 DEF Small!Min, SmallLemmas!Min
  <2>5. /\ out.trees = res.trees
        /\ out.node = res.node
    BY <2>1, <2>2, <2>4, SmallSame
       DEF Small!deallocate_block, SmallLemmas!deallocate_block, Small!nullptr, SmallLemmas!nullptr
  <2> QED BY <2>5 DEF Small!deallocate_block, SmallLemmas!deallocate_block
<1>2. /\ t \in [SmallLemmas!BlockBits -> SUBSET Nat] /\ index \in SmallLemmas!BlockBits
      /\ SmallLemmas!Aligned(addr, index)
  BY SmallSame
<1>3. /\ res.trees \in [SmallLemmas!BlockBits -> SUBSET Nat]
      /\ SmallLemmas!Rejoined(addr, index, SmallLemmas!FreeBlocks(t),
                               SmallLemmas!FreeBlocks(res.trees), res.node)
  BY <1>2, SmallAssumed, SmallLemmas!DeallocateJoins
<1>4. SmallLemmas!nullptr = nullptr
  BY DEF SmallLemmas!nullptr, nullptr
<1> HIDE DEF res
<1>5. PICK joined \in SUBSET SmallLemmas!FreeBlocks(t), stop \in index .. PageBits, m \in Nat :
        /\ SmallLemmas!Aligned(m, stop)
        /\ SmallLemmas!Cover({<<addr, index>>} \cup joined) = SmallLemmas!BlockSpan(<<m, stop>>)
        /\ stop < PageBits =>
             /\ res.node = SmallLemmas!nullptr
             /\ SmallLemmas!FreeBlocks(res.trees) = (SmallLemmas!FreeBlocks(t) \ joined) \cup {<<m, stop>>}
        /\ stop = PageBits =>
             /\ res.node = m
             /\ SmallLemmas!FreeBlocks(res.trees) = SmallLemmas!FreeBlocks(t) \ joined
  BY <1>3 DEF SmallLemmas!Rejoined, SmallLemmas!Joins
<1>6. joined \in SUBSET Small!FreeBlocks(t) /\ Aligned(m, stop)
  BY <1>5, SmallSame
<1>7. Cover({<<addr, index>>} \cup joined) = BlockSpan(<<m, stop>>)
  BY <1>5, SmallSame
<1>8. /\ stop < PageBits =>
           /\ out.node = nullptr
           /\ Small!FreeBlocks(out.trees) = (Small!FreeBlocks(t) \ joined) \cup {<<m, stop>>}
      /\ stop = PageBits =>
           /\ out.node = m
           /\ Small!FreeBlocks(out.trees) = Small!FreeBlocks(t) \ joined
  BY <1>1, <1>4, <1>5, SmallSame
<1>9. out.trees \in [Small!BlockBits -> SUBSET Nat]
  BY <1>1, <1>3, SmallSame
<1> HIDE DEF out
<1>10. Rejoined(addr, index, PageBits, Small!FreeBlocks(t), Small!FreeBlocks(out.trees), out.node)
  BY <1>6, <1>7, <1>8 DEF Rejoined, Joins
<1> QED BY <1>9, <1>10 DEF out

-----------------------------------------------------------------------------
(* large buddies: the operators of Large are those of LargeLemmas. *)
LEMMA LargeSame ==
  /\ Large!BlockBits = LargeLemmas!BlockBits /\ Large!BlockBits = PageBits .. AddressBits - 1
  /\ \A t : Large!FreeBlocks(t) = LargeLemmas!FreeBlocks(t)
  /\ \A a, i : LargeLemmas!Aligned(a, i) <=> Aligned(a, i)
  /\ \A B : LargeLemmas!AllAligned(B) <=> AllAligned(B)
  /\ \A B : LargeLemmas!Apart(B) <=> Apart(B)
  /\ \A B : LargeLemmas!Cover(B) = Cover(B)
  /\ \A b : LargeLemmas!BlockSpan(b) = BlockSpan(b)
<1>1. \A b : LargeLemmas!BlockSpan(b) = BlockSpan(b)
  BY DEF LargeLemmas!BlockSpan, LargeLemmas!Span, LargeLemmas!one_at_bit, BlockSpan, Span
<1>2. \A a, i : LargeLemmas!Aligned(a, i) <=> Aligned(a, i)
  BY DEF LargeLemmas!Aligned, LargeLemmas!one_at_bit, Aligned
<1>3. \A B : LargeLemmas!AllAligned(B) <=> AllAligned(B)
  BY <1>2 DEF LargeLemmas!AllAligned, AllAligned
<1>4. \A B : LargeLemmas!Apart(B) <=> Apart(B)
  BY <1>1 DEF LargeLemmas!Apart, Apart
<1>5. \A B : LargeLemmas!Cover(B) = Cover(B)
  BY <1>1 DEF LargeLemmas!Cover, Cover
<1>6. Large!BlockBits = LargeLemmas!BlockBits /\ Large!BlockBits = PageBits .. AddressBits - 1
  BY DEF Large!BlockBits, LargeLemmas!BlockBits
<1>7. \A t : Large!FreeBlocks(t) = LargeLemmas!FreeBlocks(t)
  BY <1>6 DEF Large!FreeBlocks, LargeLemmas!FreeBlocks
<1> QED BY <1>1, <1>2, <1>3, <1>4, <1>5, <1>6, <1>7

(* The same for the large buddy: a block it splits.                        *)
LEMMA LargeSplits ==
  ASSUME NEW old, NEW piece, NEW rest, LargeLemmas!Splits(old, piece, rest)
  PROVE  Splits(old, piece, rest) /\ rest \subseteq Nat \X Large!BlockBits
<1>1. LargeLemmas!Block \subseteq Nat \X Nat /\ LargeLemmas!Block = Nat \X Large!BlockBits
  BY LargeSame, SizesAre DEF LargeLemmas!Block
<1> QED BY <1>1, LargeSame DEF LargeLemmas!Splits, Splits

(* The free blocks of the large tree are blocks of its sizes.              *)
LEMMA LargeFree ==
  ASSUME NEW t \in [Large!BlockBits -> SUBSET Nat]
  PROVE  /\ Large!FreeBlocks(t) \subseteq Nat \X Large!BlockBits
         /\ \A a, i : <<a, i>> \in Large!FreeBlocks(t) <=> i \in Large!BlockBits /\ a \in t[i]
<1>1. t \in [LargeLemmas!BlockBits -> SUBSET Nat]
  BY LargeSame
<1>2. /\ LargeLemmas!FreeBlocks(t) \subseteq LargeLemmas!Block
      /\ \A a, i : <<a, i>> \in LargeLemmas!FreeBlocks(t) <=> i \in LargeLemmas!BlockBits /\ a \in t[i]
  BY <1>1, LargeAssumed, LargeLemmas!FreeBlocksMember
<1> QED BY <1>2, LargeSame DEF LargeLemmas!Block

(* divide_block of the large buddy splits a block.                         *)
LEMMA LargeDivideSplits ==
  ASSUME NEW t \in [Large!BlockBits -> SUBSET Nat], NEW node \in Nat,
         NEW to \in Large!BlockBits, NEW from \in Nat, to <= from, from <= AddressBits,
         Aligned(node, from)
  PROVE  LET t2 == Large!divide_block(t, node, from, to)
         IN  /\ t2 \in [Large!BlockBits -> SUBSET Nat]
             /\ \E rest : /\ Splits(<<node, from>>, <<node, to>>, rest)
                          /\ rest \subseteq Nat \X Large!BlockBits
                          /\ Large!FreeBlocks(t2) = Large!FreeBlocks(t) \cup rest
<1> DEFINE t2 == LargeLemmas!divide_block(t, node, from, to)
<1>1. Large!divide_block(t, node, from, to) = t2
  BY LargeSame DEF Large!divide_block, LargeLemmas!divide_block, Large!one_at_bit, LargeLemmas!one_at_bit
<1>2. /\ t \in [LargeLemmas!BlockBits -> SUBSET Nat] /\ to \in LargeLemmas!BlockBits
      /\ LargeLemmas!Aligned(node, from)
  BY LargeSame
<1>3. /\ t2 \in [LargeLemmas!BlockBits -> SUBSET Nat]
      /\ \E rest : /\ LargeLemmas!Splits(<<node, from>>, <<node, to>>, rest)
                   /\ LargeLemmas!FreeBlocks(t2) = LargeLemmas!FreeBlocks(t) \cup rest
  BY <1>2, LargeAssumed, LargeLemmas!DivideSplits
<1> HIDE DEF t2
<1> QED BY <1>1, <1>3, LargeSame, LargeSplits

(* allocate_block of the large buddy takes out a free block and splits it. *)
LEMMA LargeAllocateSplits ==
  ASSUME NEW t \in [Large!BlockBits -> SUBSET Nat], NEW index \in Large!BlockBits,
         Large!Donors(t, index) # {}, AllAligned(Large!FreeBlocks(t))
  PROVE  LET res == Large!allocate_block(t, index)
         IN  /\ res.trees \in [Large!BlockBits -> SUBSET Nat]
             /\ res.node \in Nat
             /\ \E from, rest :
                  /\ <<res.node, from>> \in Large!FreeBlocks(t)
                  /\ Splits(<<res.node, from>>, <<res.node, index>>, rest)
                  /\ rest \subseteq Nat \X Large!BlockBits
                  /\ Large!FreeBlocks(res.trees)
                       = (Large!FreeBlocks(t) \ {<<res.node, from>>}) \cup rest
<1> DEFINE res == LargeLemmas!allocate_block(t, index)
           out == Large!allocate_block(t, index)
<1>1. \A u, node, from : Large!divide_block(u, node, from, index) = LargeLemmas!divide_block(u, node, from, index)
  BY LargeSame DEF Large!divide_block, LargeLemmas!divide_block, Large!one_at_bit, LargeLemmas!one_at_bit
<1>2. Large!Donors(t, index) = LargeLemmas!Donors(t, index)
  BY DEF Large!Donors, LargeLemmas!Donors
<1>3. out = res
  BY <1>1, <1>2, ZenonT(40) DEF Large!allocate_block, LargeLemmas!allocate_block, Large!Min, LargeLemmas!Min
<1>4. /\ t \in [LargeLemmas!BlockBits -> SUBSET Nat] /\ index \in LargeLemmas!BlockBits
      /\ LargeLemmas!Donors(t, index) # {} /\ LargeLemmas!AllAligned(LargeLemmas!FreeBlocks(t))
  BY <1>2, LargeSame
<1>5. /\ res.trees \in [LargeLemmas!BlockBits -> SUBSET Nat]
      /\ res.node \in Nat
      /\ \E from, rest :
           /\ <<res.node, from>> \in LargeLemmas!FreeBlocks(t)
           /\ LargeLemmas!Splits(<<res.node, from>>, <<res.node, index>>, rest)
           /\ LargeLemmas!FreeBlocks(res.trees) = (LargeLemmas!FreeBlocks(t) \ {<<res.node, from>>}) \cup rest
  BY <1>4, LargeAssumed, LargeLemmas!AllocateSplits
<1> HIDE DEF res
<1>6. PICK from, rest :
        /\ <<res.node, from>> \in LargeLemmas!FreeBlocks(t)
        /\ LargeLemmas!Splits(<<res.node, from>>, <<res.node, index>>, rest)
        /\ LargeLemmas!FreeBlocks(res.trees) = (LargeLemmas!FreeBlocks(t) \ {<<res.node, from>>}) \cup rest
  BY <1>5
<1>7. /\ <<out.node, from>> \in Large!FreeBlocks(t)
      /\ Large!FreeBlocks(out.trees) = (Large!FreeBlocks(t) \ {<<out.node, from>>}) \cup rest
  BY <1>3, <1>6, LargeSame
<1>8. /\ Splits(<<out.node, from>>, <<out.node, index>>, rest)
      /\ rest \subseteq Nat \X Large!BlockBits
  BY <1>3, <1>6, LargeSplits
<1>9. out.trees \in [Large!BlockBits -> SUBSET Nat] /\ out.node \in Nat
  BY <1>3, <1>5, LargeSame
<1> HIDE DEF out
<1> QED BY <1>7, <1>8, <1>9 DEF out

(* deallocate_block of the large buddy joins the block with free halves.   *)
LEMMA LargeDeallocateJoins ==
  ASSUME NEW t \in [Large!BlockBits -> SUBSET Nat], NEW index \in Large!BlockBits,
         NEW addr \in Nat, Aligned(addr, index)
  PROVE  LET res == Large!deallocate_block(t, addr, index)
         IN  /\ res.trees \in [Large!BlockBits -> SUBSET Nat]
             /\ Rejoined(addr, index, AddressBits,
                         Large!FreeBlocks(t), Large!FreeBlocks(res.trees), res.node)
<1> DEFINE res == LargeLemmas!deallocate_block(t, addr, index)
           out == Large!deallocate_block(t, addr, index)
<1>1. out = res
  <2>1. \A p, i : Large!MergedNode(p, i) = LargeLemmas!MergedNode(p, i)
    BY DEF Large!MergedNode, LargeLemmas!MergedNode, Large!one_at_bit, LargeLemmas!one_at_bit
  <2>2. \A p, i : Large!OtherHalf(p, i) = LargeLemmas!OtherHalf(p, i)
    BY DEF Large!OtherHalf, LargeLemmas!OtherHalf, Large!one_at_bit, LargeLemmas!one_at_bit
  <2>3. Large!StopSizes(t, addr, index) = LargeLemmas!StopSizes(t, addr, index)
    BY <2>1, <2>2 DEF Large!StopSizes, LargeLemmas!StopSizes
  <2>4. Large!Min(Large!StopSizes(t, addr, index)) = LargeLemmas!Min(LargeLemmas!StopSizes(t, addr, index))
    BY <2>3 DEF Large!Min, LargeLemmas!Min
  <2>5. /\ out.trees = res.trees
        /\ out.node = res.node
    BY <2>1, <2>2, <2>4, LargeSame
       DEF Large!deallocate_block, LargeLemmas!deallocate_block, Large!nullptr, LargeLemmas!nullptr
  <2> QED BY <2>5 DEF Large!deallocate_block, LargeLemmas!deallocate_block
<1>2. /\ t \in [LargeLemmas!BlockBits -> SUBSET Nat] /\ index \in LargeLemmas!BlockBits
      /\ LargeLemmas!Aligned(addr, index)
  BY LargeSame
<1>3. /\ res.trees \in [LargeLemmas!BlockBits -> SUBSET Nat]
      /\ LargeLemmas!Rejoined(addr, index, LargeLemmas!FreeBlocks(t),
                               LargeLemmas!FreeBlocks(res.trees), res.node)
  BY <1>2, LargeAssumed, LargeLemmas!DeallocateJoins
<1>4. LargeLemmas!nullptr = nullptr
  BY DEF LargeLemmas!nullptr, nullptr
<1> HIDE DEF res
<1>5. PICK joined \in SUBSET LargeLemmas!FreeBlocks(t), stop \in index .. AddressBits, m \in Nat :
        /\ LargeLemmas!Aligned(m, stop)
        /\ LargeLemmas!Cover({<<addr, index>>} \cup joined) = LargeLemmas!BlockSpan(<<m, stop>>)
        /\ stop < AddressBits =>
             /\ res.node = LargeLemmas!nullptr
             /\ LargeLemmas!FreeBlocks(res.trees) = (LargeLemmas!FreeBlocks(t) \ joined) \cup {<<m, stop>>}
        /\ stop = AddressBits =>
             /\ res.node = m
             /\ LargeLemmas!FreeBlocks(res.trees) = LargeLemmas!FreeBlocks(t) \ joined
  BY <1>3 DEF LargeLemmas!Rejoined, LargeLemmas!Joins
<1>6. joined \in SUBSET Large!FreeBlocks(t) /\ Aligned(m, stop)
  BY <1>5, LargeSame
<1>7. Cover({<<addr, index>>} \cup joined) = BlockSpan(<<m, stop>>)
  BY <1>5, LargeSame
<1>8. /\ stop < AddressBits =>
           /\ out.node = nullptr
           /\ Large!FreeBlocks(out.trees) = (Large!FreeBlocks(t) \ joined) \cup {<<m, stop>>}
      /\ stop = AddressBits =>
           /\ out.node = m
           /\ Large!FreeBlocks(out.trees) = Large!FreeBlocks(t) \ joined
  BY <1>1, <1>4, <1>5, LargeSame
<1>9. out.trees \in [Large!BlockBits -> SUBSET Nat]
  BY <1>1, <1>3, LargeSame
<1> HIDE DEF out
<1>10. Rejoined(addr, index, AddressBits, Large!FreeBlocks(t), Large!FreeBlocks(out.trees), out.node)
  BY <1>6, <1>7, <1>8 DEF Rejoined, Joins
<1> QED BY <1>9, <1>10 DEF out

-----------------------------------------------------------------------------
(* No tree of a thread holds both halves of a block.                       *)
Merged(t) == \A i \in Small!BlockBits : \A a \in t[i] : Small!OtherHalf(a, i) \notin t[i]

(* A small tree with no two halves of a block is Merged in the sense of    *)
(* the lemmas on buddies.                                                  *)
LEMMA MergedSame ==
  \A t : Merged(t) <=> SmallLemmas!Merged(t)
<1>1. \A p, i : Small!OtherHalf(p, i) = SmallLemmas!OtherHalf(p, i)
  BY DEF Small!OtherHalf, SmallLemmas!OtherHalf, Small!one_at_bit, SmallLemmas!one_at_bit
<1> QED BY <1>1, SmallSame DEF Merged, SmallLemmas!Merged

(* Taking out a block and splitting it brings no two halves together.      *)
LEMMA AllocateKeepsMerged ==
  ASSUME NEW t \in [Small!BlockBits -> SUBSET Nat], NEW index \in Small!BlockBits,
         Small!Donors(t, index) # {}, AllAligned(Small!FreeBlocks(t)), Merged(t)
  PROVE  Merged(Small!allocate_block(t, index).trees)
<1>1. \A u, node, from : Small!divide_block(u, node, from, index) = SmallLemmas!divide_block(u, node, from, index)
  BY SmallSame DEF Small!divide_block, SmallLemmas!divide_block, Small!one_at_bit, SmallLemmas!one_at_bit
<1>2. Small!Donors(t, index) = SmallLemmas!Donors(t, index)
  BY DEF Small!Donors, SmallLemmas!Donors
<1>3. Small!allocate_block(t, index) = SmallLemmas!allocate_block(t, index)
  <2>1. \A S : Small!Min(S) = SmallLemmas!Min(S)
    BY DEF Small!Min, SmallLemmas!Min
  <2> QED BY <1>1, <1>2, <2>1, Zenon DEF Small!allocate_block, SmallLemmas!allocate_block
<1>4. /\ t \in [SmallLemmas!BlockBits -> SUBSET Nat] /\ index \in SmallLemmas!BlockBits
      /\ SmallLemmas!Donors(t, index) # {} /\ SmallLemmas!AllAligned(SmallLemmas!FreeBlocks(t))
      /\ SmallLemmas!Merged(t)
  BY <1>2, SmallSame, MergedSame
<1>5. SmallLemmas!Merged(SmallLemmas!allocate_block(t, index).trees)
  BY <1>4, SmallAssumed, SmallLemmas!AllocateMerged
<1> QED BY <1>3, <1>5, MergedSame

(* Nor does splitting a page, where no free block could serve the request. *)
LEMMA DivideKeepsMerged ==
  ASSUME NEW t \in [Small!BlockBits -> SUBSET Nat], NEW index \in Small!BlockBits,
         Small!Donors(t, index) = {}, NEW node \in Nat, Aligned(node, PageBits), Merged(t)
  PROVE  Merged(Small!divide_block(t, node, PageBits, index))
<1>1. Small!divide_block(t, node, PageBits, index) = SmallLemmas!divide_block(t, node, PageBits, index)
  BY SmallSame DEF Small!divide_block, SmallLemmas!divide_block, Small!one_at_bit, SmallLemmas!one_at_bit
<1>2. /\ t \in [SmallLemmas!BlockBits -> SUBSET Nat] /\ index \in SmallLemmas!BlockBits
      /\ SmallLemmas!Merged(t) /\ SmallLemmas!Aligned(node, PageBits)
  BY SmallSame, MergedSame
<1>3. /\ \A i \in index .. PageBits - 1 : t[i] = {}
      /\ index <= PageBits /\ PageBits \in Nat
  BY SmallSame, SizesAre DEF Small!Donors
<1>4. SmallLemmas!Merged(SmallLemmas!divide_block(t, node, PageBits, index))
  BY <1>2, <1>3, SmallAssumed, SmallLemmas!DivideMerged
<1> QED BY <1>1, <1>4, MergedSame

(* deallocate_block of the small buddy is the one the lemmas on buddies    *)
(* are about.                                                              *)
LEMMA SmallDeallocateSame ==
  \A t, addr, index :
    Small!deallocate_block(t, addr, index) = SmallLemmas!deallocate_block(t, addr, index)
<1> SUFFICES ASSUME NEW t, NEW addr, NEW index
             PROVE Small!deallocate_block(t, addr, index) = SmallLemmas!deallocate_block(t, addr, index)
  OBVIOUS
<1>1. \A p, i : Small!MergedNode(p, i) = SmallLemmas!MergedNode(p, i)
  BY DEF Small!MergedNode, SmallLemmas!MergedNode, Small!one_at_bit, SmallLemmas!one_at_bit
<1>2. \A p, i : Small!OtherHalf(p, i) = SmallLemmas!OtherHalf(p, i)
  BY DEF Small!OtherHalf, SmallLemmas!OtherHalf, Small!one_at_bit, SmallLemmas!one_at_bit
<1>3. Small!StopSizes(t, addr, index) = SmallLemmas!StopSizes(t, addr, index)
  BY <1>1, <1>2 DEF Small!StopSizes, SmallLemmas!StopSizes
<1>4. Small!Min(Small!StopSizes(t, addr, index)) = SmallLemmas!Min(SmallLemmas!StopSizes(t, addr, index))
  BY <1>3 DEF Small!Min, SmallLemmas!Min
<1>5. /\ Small!deallocate_block(t, addr, index).trees = SmallLemmas!deallocate_block(t, addr, index).trees
      /\ Small!deallocate_block(t, addr, index).node = SmallLemmas!deallocate_block(t, addr, index).node
  BY <1>1, <1>2, <1>4, SmallSame
     DEF Small!deallocate_block, SmallLemmas!deallocate_block, Small!nullptr, SmallLemmas!nullptr
<1> QED BY <1>5 DEF Small!deallocate_block, SmallLemmas!deallocate_block

(* A block that is freed is joined with its other half, as far up as that  *)
(* is free.                                                                *)
LEMMA DeallocateKeepsMerged ==
  ASSUME NEW t \in [Small!BlockBits -> SUBSET Nat], NEW index \in Small!BlockBits,
         NEW addr \in Nat, AllAligned(Small!FreeBlocks(t)), Merged(t)
  PROVE  Merged(Small!deallocate_block(t, addr, index).trees)
<1>1. /\ t \in [SmallLemmas!BlockBits -> SUBSET Nat] /\ index \in SmallLemmas!BlockBits
      /\ SmallLemmas!AllAligned(SmallLemmas!FreeBlocks(t)) /\ SmallLemmas!Merged(t)
  BY SmallSame, MergedSame
<1>2. SmallLemmas!Merged(SmallLemmas!deallocate_block(t, addr, index).trees)
  BY <1>1, SmallAssumed, SmallLemmas!DeallocateMerged
<1> QED BY <1>2, SmallDeallocateSame, MergedSame

(* A page that the free blocks of one thread cover is a block of its own,   *)
(* and so in none of the trees, which hold smaller ones.                    *)
LEMMA PagesLeave ==
  ASSUME NEW t \in [Small!BlockBits -> SUBSET Nat], Merged(t),
         AllAligned(Small!FreeBlocks(t)), Apart(Small!FreeBlocks(t)),
         NEW a \in Nat, Aligned(a, PageBits)
  PROVE  ~(Span(a, PageBits) \subseteq Cover(Small!FreeBlocks(t)))
<1> SUFFICES ASSUME Span(a, PageBits) \subseteq Cover(Small!FreeBlocks(t)) PROVE FALSE
  OBVIOUS
<1>1. /\ t \in [SmallLemmas!BlockBits -> SUBSET Nat] /\ SmallLemmas!Merged(t)
      /\ SmallLemmas!AllAligned(SmallLemmas!FreeBlocks(t))
      /\ SmallLemmas!Apart(SmallLemmas!FreeBlocks(t))
      /\ SmallLemmas!Aligned(a, PageBits) /\ PageBits \in Nat
  BY SmallSame, MergedSame, SizesAre
<1>2. SmallLemmas!Span(a, PageBits) \subseteq SmallLemmas!Cover(SmallLemmas!FreeBlocks(t))
  BY SmallSame DEF SmallLemmas!Span, SmallLemmas!one_at_bit, Span
<1>3. PICK b \in SmallLemmas!FreeBlocks(t) : PageBits <= b[2]
  BY <1>1, <1>2, SmallAssumed, SmallLemmas!MergedIsLargest
<1>4. b \in Nat \X Small!BlockBits
  BY <1>3, SmallSame, SmallFree
<1> QED BY <1>3, <1>4, SmallSame, SizesAre

-----------------------------------------------------------------------------
(* Pages.                                                                  *)
LEMMA PageSizeIs == PageSize \in Nat \ {0}
BY SizesAre, Pow2Pos DEF PageSize

(* A block has addresses, and its own is one of them.                      *)
LEMMA SpanIs ==
  ASSUME NEW addr \in Nat, NEW bits \in Nat
  PROVE  /\ Span(addr, bits) \subseteq Nat
         /\ addr \in Span(addr, bits)
         /\ 2 ^ bits \in Nat \ {0}
<1>1. PICK p \in Nat \ {0} : p = 2 ^ bits
  BY Pow2Pos
<1> QED BY <1>1 DEF Span

(* Quotients and bounds: a page starts at or before the addresses in it.   *)
LEMMA QuotAtLeast ==
  ASSUME NEW p \in Nat \ {0}, NEW a \in Nat, NEW k \in Nat
  PROVE  k <= a \div p <=> k * p <= a
<1>1. PICK q \in Nat, r \in Nat : q = a \div p /\ r < p /\ a = q * p + r
  BY QuotRem
<1>2. k * p \in Nat /\ q * p \in Nat
  OBVIOUS
<1>3. CASE k <= q
  <2>1. k = q \/ k * p + p <= q * p
    BY <1>3, MultMono
  <2> QED BY <1>1, <1>2, <1>3, <2>1
<1>4. CASE q < k
  <2>1. q * p + p <= k * p
    BY <1>4, MultMono
  <2> QED BY <1>1, <1>2, <1>4, <2>1
<1> QED BY <1>1, <1>3, <1>4

(* The addresses of a run of pages. *)
LEMMA PageRun ==
  ASSUME NEW k \in Nat, NEW n \in Nat \ {0}
  PROVE  /\ PagesBetween(k * PageSize, n * PageSize) = k .. n - 1
         /\ \A a \in Nat : a \div PageSize \in k .. n - 1
                             <=> (k * PageSize <= a /\ a < n * PageSize)
<1>1. PICK p \in Nat \ {0} : p = PageSize
  BY PageSizeIs
<1>2. k * p \in Nat /\ n * p \in Nat /\ n * p >= p
  <2>1. n = 1 \/ 1 * p + p <= n * p
    BY MultMono
  <2> QED BY <2>1
<1>3. (k * p) \div p = k
  <2>1. (k * p + 0) \div p = k
    BY RemOfSum
  <2> QED BY <1>2, <2>1
<1>4. (n * p - 1) \div p = n - 1
  <2>1. n - 1 \in Nat /\ p - 1 \in Nat /\ p - 1 < p
    OBVIOUS
  <2>2. ((n - 1) * p + (p - 1)) \div p = n - 1
    BY <2>1, RemOfSum
  <2>3. (n - 1) * p + (p - 1) = n * p - 1
    OBVIOUS
  <2> QED BY <2>2, <2>3
<1>5. PagesBetween(k * p, n * p) = k .. n - 1
  BY <1>1, <1>3, <1>4 DEF PagesBetween
<1>6. ASSUME NEW a \in Nat
      PROVE  a \div p \in k .. n - 1 <=> (k * p <= a /\ a < n * p)
  <2>1. a \div p \in Nat
    BY QuotRem
  <2>2. k <= a \div p <=> k * p <= a
    BY QuotAtLeast
  <2>3. n <= a \div p <=> n * p <= a
    BY QuotAtLeast
  <2> QED BY <1>2, <2>1, <2>2, <2>3
<1> QED BY <1>1, <1>5, <1>6

(* An aligned block of a page or more is a run of whole pages.             *)
LEMMA AlignedRun ==
  ASSUME NEW addr \in Nat, NEW bits \in Nat, PageBits <= bits, Aligned(addr, bits)
  PROVE  \E k \in Nat, n \in Nat \ {0} :
           addr = k * PageSize /\ 2 ^ bits = n * PageSize /\ addr + 2 ^ bits = (k + n) * PageSize
<1>1. PICK p \in Nat \ {0} : p = PageSize
  BY PageSizeIs
<1>2. bits - PageBits \in Nat /\ PageBits \in Nat /\ bits = PageBits + (bits - PageBits)
  BY SizesAre
<1>3. PICK n \in Nat \ {0} : n = 2 ^ (bits - PageBits)
  BY <1>2, Pow2Pos
<1>4. 2 ^ bits = n * p
  <2>1. 2 ^ (PageBits + (bits - PageBits)) = 2 ^ PageBits * 2 ^ (bits - PageBits)
    BY <1>2, Pow2Add
  <2>2. 2 ^ (PageBits + (bits - PageBits)) = p * n
    BY <2>1, <1>1, <1>3 DEF PageSize
  <2>3. 2 ^ bits = 2 ^ (PageBits + (bits - PageBits))
    BY <1>2
  <2> QED BY <2>2, <2>3
<1>5. PICK s \in Nat \ {0} : s = 2 ^ bits
  BY Pow2Pos
<1>6. PICK q \in Nat : q = addr \div s /\ addr = q * s
  <2>1. /\ addr \div s \in Nat /\ addr = (addr \div s) * s + (addr % s)
    BY QuotRem
  <2>2. addr % s = 0
    BY <1>5 DEF Aligned
  <2>3. PICK q \in Nat : q = addr \div s
    BY <2>1
  <2>4. addr = q * s + 0
    BY <2>1, <2>2, <2>3
  <2> QED BY <2>3, <2>4
<1>7. q * n \in Nat /\ addr = (q * n) * p /\ addr + s = (q * n + n) * p
  <2>1. s = n * p
    BY <1>4, <1>5
  <2> QED BY <1>6, <2>1
<1> QED BY <1>1, <1>4, <1>5, <1>7

(* The page of an address of a block is one of the block's, and every page  *)
(* of the block has an address in it.  A block of whole pages has all of    *)
(* their addresses.                                                         *)
LEMMA PageOfAddress ==
  ASSUME NEW addr \in Nat, NEW bits \in Nat, NEW a \in Span(addr, bits)
  PROVE  a \div PageSize \in PagesOf(addr, bits)
<1>1. PICK p \in Nat \ {0} : p = PageSize
  BY PageSizeIs
<1>2. PICK s \in Nat \ {0} : s = 2 ^ bits
  BY Pow2Pos
<1>3. a \in Nat /\ addr <= a /\ a <= addr + s - 1 /\ addr + s - 1 \in Nat
  BY <1>2 DEF Span
<1>4. addr \div p <= a \div p /\ a \div p <= (addr + s - 1) \div p
  BY <1>3, QuotMono
<1>5. a \div p \in Nat /\ addr \div p \in Nat /\ (addr + s - 1) \div p \in Nat
  BY <1>3, QuotRem
<1> QED BY <1>1, <1>2, <1>4, <1>5 DEF PagesOf, PagesBetween

(* Every page of a block has an address of the block.                      *)
LEMMA AddressInPage ==
  ASSUME NEW addr \in Nat, NEW bits \in Nat, NEW page \in PagesOf(addr, bits)
  PROVE  \E a \in Span(addr, bits) : a \div PageSize = page
<1>1. PICK p \in Nat \ {0} : p = PageSize
  BY PageSizeIs
<1>2. PICK s \in Nat \ {0} : s = 2 ^ bits
  BY Pow2Pos
<1>3. addr + s - 1 \in Nat /\ addr \div p \in Nat /\ (addr + s - 1) \div p \in Nat
  BY QuotRem
<1>4. page \in Nat /\ addr \div p <= page /\ page <= (addr + s - 1) \div p
  BY <1>1, <1>2, <1>3 DEF PagesOf, PagesBetween
<1>5. CASE page = addr \div p
  BY <1>1, <1>5, SpanIs
<1>6. CASE addr \div p < page
  <2>1. page * p \in Nat /\ page * p <= addr + s - 1
    BY <1>3, <1>4, QuotAtLeast
  <2>2. ~(page <= addr \div p)
    BY <1>3, <1>4, <1>6
  <2>3. addr <= page * p
    BY <1>4, <2>1, <2>2, QuotAtLeast
  <2>4. (page * p + 0) \div p = page
    BY <1>4, RemOfSum
  <2>5. page * p \in Span(addr, bits) /\ (page * p) \div p = page
    BY <1>2, <2>1, <2>3, <2>4 DEF Span
  <2> QED BY <1>1, <2>5
<1> QED BY <1>3, <1>4, <1>5, <1>6

(* A block of a page or more has every address of its pages.               *)
LEMMA WholePages ==
  ASSUME NEW addr \in Nat, NEW bits \in Nat, PageBits <= bits, Aligned(addr, bits),
         NEW a \in Nat, a \div PageSize \in PagesOf(addr, bits)
  PROVE  a \in Span(addr, bits)
<1>1. PICK k \in Nat, n \in Nat \ {0} :
        addr = k * PageSize /\ 2 ^ bits = n * PageSize /\ addr + 2 ^ bits = (k + n) * PageSize
  BY AlignedRun
<1>2. k + n \in Nat \ {0}
  OBVIOUS
<1>3. PagesOf(addr, bits) = k .. k + n - 1
  BY <1>1, <1>2, PageRun DEF PagesOf
<1>4. k * PageSize <= a /\ a < (k + n) * PageSize
  BY <1>2, <1>3, PageRun
<1>5. PICK s \in Nat \ {0} : s = 2 ^ bits
  BY Pow2Pos
<1>6. addr <= a /\ a < addr + s
  BY <1>1, <1>4, <1>5
<1> QED BY <1>5, <1>6 DEF Span

-----------------------------------------------------------------------------
(* Reservations.  With pal_apple a reservation that fails changes nothing;  *)
(* with the others it unmaps the pages from the requested size to nearly    *)
(* twice it, and mmap must not place anything there.                        *)
FailuresUnmapNothing ==
  \/ AlignedAllocation
  \/ \A bits \in Sizes :
       LET size == 2 ^ RefillSizeBits(BlockBits(bits))
       IN  PagesBetween(size, 2 * size - PageSize) \cap MmapPages = {}

(* The greater of two numbers.                                             *)
LEMMA Larger ==
  ASSUME NEW m \in Nat, NEW n \in Nat
  PROVE  Max({m, n}) \in {m, n} /\ m <= Max({m, n}) /\ n <= Max({m, n})
<1>1. {m, n} \in SUBSET Nat /\ {m, n} # {} /\ IsFiniteSet({m, n})
  <2>1. IsFiniteSet({m})
    BY FS_Singleton
  <2>2. IsFiniteSet({m} \cup {n})
    BY <2>1, FS_AddElement
  <2>3. {m} \cup {n} = {m, n}
    OBVIOUS
  <2> QED BY <2>2, <2>3
<1>2. Max({m, n}) \in {m, n} /\ \A x \in {m, n} : x <= Max({m, n})
  BY <1>1, MaxGreatest
<1> QED BY <1>2

(* The block that the pipeline gets for a request, and the refill that its *)
(* size needs.                                                             *)
LEMMA BlockBitsAre ==
  ASSUME NEW bits \in 0 .. AddressBits - 1
  PROVE  /\ BlockBits(bits) \in Large!BlockBits /\ BlockBits(bits) \in Nat
         /\ bits <= BlockBits(bits) /\ PageBits <= BlockBits(bits)
         /\ BlockBits(bits) < AddressBits
         /\ bits < PageBits => BlockBits(bits) = PageBits
         /\ bits >= PageBits => BlockBits(bits) = bits
         /\ RefillSizeBits(BlockBits(bits)) \in Nat
         /\ BlockBits(bits) <= RefillSizeBits(BlockBits(bits))
         /\ RefillSizeBits(BlockBits(bits)) < AddressBits
<1>1. bits \in Nat /\ PageBits \in Nat /\ BitRefill \in Nat
  BY SizesAre
<1>2. /\ BlockBits(bits) \in {bits, PageBits}
      /\ bits <= BlockBits(bits) /\ PageBits <= BlockBits(bits)
  BY <1>1, Larger DEF BlockBits
<1>3. BlockBits(bits) \in Nat /\ BlockBits(bits) < AddressBits
  BY <1>1, <1>2, SizesAre
<1>4. PICK m \in Nat : m = BlockBits(bits)
  BY <1>3
<1>5. /\ RefillSizeBits(m) \in {m, BitRefill} /\ m <= RefillSizeBits(m)
  BY <1>1, Larger DEF RefillSizeBits
<1>6. /\ RefillSizeBits(m) \in Nat /\ RefillSizeBits(m) < AddressBits
  BY <1>1, <1>3, <1>4, <1>5, SizesAre
<1>7. m \in Large!BlockBits
  BY <1>2, <1>3, <1>4, SizesAre, LargeSame
<1> QED BY <1>1, <1>2, <1>3, <1>4, <1>5, <1>6, <1>7

(* Mapped pages are in the address space, and page 0 is not mapped.        *)
LEMMA MmapPagesAre ==
  /\ MmapPages \subseteq Nat \ {0}
  /\ \A a \in Nat : a \div PageSize \in MmapPages => a < 2 ^ AddressBits /\ a > 0
<1>1. 0 \in Nat /\ AddressBits \in Nat /\ PageBits <= AddressBits /\ Aligned(0, AddressBits)
  <2>1. PICK s \in Nat \ {0} : s = 2 ^ AddressBits
    BY SizesAre, Pow2Pos
  <2>2. (0 * s + 0) % s = 0
    BY <2>1, RemOfSum
  <2> QED BY <2>1, <2>2, SizesAre DEF Aligned
<1>2. PICK k \in Nat, n \in Nat \ {0} :
        0 = k * PageSize /\ 2 ^ AddressBits = n * PageSize /\ 0 + 2 ^ AddressBits = (k + n) * PageSize
  BY <1>1, AlignedRun
<1>3. PagesOf(0, AddressBits) = k .. k + n - 1
  BY <1>2, PageRun DEF PagesOf
<1>4. MmapPages \subseteq Nat \ {0}
  BY <1>3, RangePages
<1>5. ASSUME NEW a \in Nat, a \div PageSize \in MmapPages
      PROVE  a < 2 ^ AddressBits /\ a > 0
  <2>1. a \div PageSize \in PagesOf(0, AddressBits)
    BY <1>5, RangePages
  <2>2. a \in Span(0, AddressBits)
    BY <1>1, <2>1, WholePages
  <2>3. a # 0
    <3>1. PICK p \in Nat \ {0} : p = PageSize
      BY PageSizeIs
    <3>2. (0 * p + 0) \div p = 0
      BY RemOfSum
    <3> QED BY <1>4, <1>5, <3>1, <3>2
  <2>4. 2 ^ AddressBits \in Nat
    BY SizesAre, Pow2Pos
  <2> QED BY <2>2, <2>3, <2>4 DEF Span
<1> QED BY <1>4, <1>5

(* A reservation that succeeds returns an aligned block of fresh pages and  *)
(* leaves just these mapped.                                                *)
LEMMA AppleReserves ==
  ASSUME NEW bits \in Nat, NEW p \in MachVmMap(2 ^ bits)
  PROVE  LET res == reserve_aligned_apple(p, 2 ^ bits)
         IN  \/ res.ptr = nullptr /\ res.mapped = mapped
             \/ /\ res.ptr \in Nat \ {0} /\ Aligned(res.ptr, bits)
                /\ PagesOf(res.ptr, bits) \subseteq MmapPages \ mapped
                /\ res.mapped = mapped \cup PagesOf(res.ptr, bits)
<1>1. CASE p = nullptr
  BY <1>1 DEF reserve_aligned_apple
<1>2. CASE p # nullptr
  <2>1. PICK page \in MmapPages : p = page * PageSize
    BY <1>2 DEF MachVmMap
  <2>2. page \in Nat /\ PageSize \in Nat
    BY MmapPagesAre, PageSizeIs
  <2>3. p \in Nat \ {0}
    BY <1>2, <2>1, <2>2 DEF nullptr
  <2>4. p % (2 ^ bits) = 0 /\ PagesBetween(p, p + 2 ^ bits) \subseteq MmapPages \ mapped
    BY <1>2 DEF MachVmMap
  <2> QED BY <1>2, <2>3, <2>4 DEF reserve_aligned_apple, Aligned, PagesOf
<1> QED BY <1>1, <1>2

(* The first multiple of size from p on.                                    *)
LEMMA RoundUp ==
  ASSUME NEW p \in Nat, NEW size \in Nat \ {0}
  PROVE  \E c \in Nat : /\ ((p + size - 1) \div size) * size = c * size
                        /\ p <= c * size /\ c * size < p + size
<1>1. p + size - 1 \in Nat
  OBVIOUS
<1>2. PICK x \in Nat : x = p + size - 1
  BY <1>1
<1>3. PICK c \in Nat, r \in Nat : c = x \div size /\ r < size /\ x = c * size + r
  BY QuotRem
<1>4. c * size \in Nat
  OBVIOUS
<1>5. p <= c * size /\ c * size < p + size
  BY <1>2, <1>3, <1>4
<1> QED BY <1>2, <1>3, <1>5

(* reserve_aligned of pal_posix keeps an aligned block of what it has      *)
(* mapped, and unmaps exactly the rest.                                    *)
LEMMA PosixReserves ==
  ASSUME NEW bits \in Nat, PageBits <= bits, NEW p \in Mmap(2 * 2 ^ bits - PageSize),
         p # nullptr
  PROVE  LET res == reserve_aligned(p, 2 ^ bits)
         IN  /\ res.ptr \in Nat \ {0} /\ Aligned(res.ptr, bits)
             /\ PagesOf(res.ptr, bits) \subseteq MmapPages \ mapped
             /\ res.mapped = mapped \cup PagesOf(res.ptr, bits)
<1>1. PICK s \in Nat \ {0} : s = PageSize
  BY PageSizeIs
<1>2. PICK size \in Nat \ {0} : size = 2 ^ bits
  BY Pow2Pos
<1>3. PICK n \in Nat \ {0} : size = n * s
  <2>1. (0 * size + 0) % size = 0
    BY RemOfSum
  <2>2. Aligned(0, bits)
    BY <1>2, <2>1 DEF Aligned
  <2> QED BY <1>1, <1>2, <2>2, AlignedRun
<1>4. PICK g \in MmapPages : p = g * s /\ PagesBetween(p, p + (2 * size - s)) \subseteq MmapPages \ mapped
  BY <1>1, <1>2 DEF Mmap
<1>5. g \in Nat /\ p \in Nat /\ p # 0
  <2>1. g \in Nat
    BY MmapPagesAre
  <2> QED BY <1>4, <2>1 DEF nullptr
<1>6. PICK c \in Nat : /\ ((p + size - 1) \div size) * size = c * size
                       /\ p <= c * size /\ c * size < p + size
  BY <1>5, RoundUp
<1>7. PICK h \in Nat : h = c * n
  OBVIOUS
<1>8. c * size = h * s
  BY <1>3, <1>7
<1>9. g <= h /\ h < g + n
  <2>1. g * s <= h * s /\ h * s < (g + n) * s
    BY <1>3, <1>4, <1>5, <1>6, <1>8
  <2>2. h < g => h * s + s <= g * s
    BY <1>5, MultMono
  <2>3. g + n <= h => (g + n) * s <= h * s
    <3>1. g + n < h => (g + n) * s + s <= h * s
      BY <1>5, MultMono
    <3> QED BY <1>5, <3>1
  <2>4. g * s \in Nat /\ h * s \in Nat /\ (g + n) * s \in Nat
    BY <1>5
  <2> QED BY <1>5, <2>1, <2>2, <2>3, <2>4
<1>10. p + (2 * size - s) = (g + 2 * n - 1) * s /\ g + 2 * n - 1 \in Nat \ {0}
  BY <1>3, <1>4, <1>5
<1>11. h * s + size = (h + n) * s /\ h + n \in Nat \ {0}
  BY <1>3
<1> DEFINE reserved == g .. g + 2 * n - 2
           kept == h .. h + n - 1
<1>12. PagesBetween(p, p + (2 * size - s)) = reserved
  <2>1. PICK e \in Nat \ {0} : e = g + 2 * n - 1
    BY <1>10
  <2>2. PagesBetween(g * PageSize, e * PageSize) = g .. e - 1
    BY <1>5, PageRun
  <2>3. p = g * PageSize /\ p + (2 * size - s) = e * PageSize
    BY <1>1, <1>4, <1>10, <2>1
  <2>4. e - 1 = g + 2 * n - 2
    BY <1>5, <2>1
  <2> QED BY <2>2, <2>3, <2>4
<1>13. PagesOf(h * s, bits) = kept
  <2>1. PICK e \in Nat \ {0} : e = h + n
    BY <1>11
  <2>2. PagesBetween(h * PageSize, e * PageSize) = h .. e - 1
    BY PageRun
  <2>3. h * s = h * PageSize /\ h * s + 2 ^ bits = e * PageSize
    BY <1>1, <1>2, <1>11, <2>1
  <2> QED BY <2>1, <2>2, <2>3 DEF PagesOf
<1>14. (IF h * s > p THEN PagesBetween(p, h * s) ELSE {}) = g .. h - 1
  <2>1. CASE h = g
    BY <1>4, <1>5, <2>1
  <2>2. CASE g < h
    <3>1. h \in Nat \ {0} /\ g * s + s <= h * s /\ g * s \in Nat /\ h * s \in Nat
      BY <1>5, <2>2, MultMono
    <3>2. PagesBetween(g * s, h * s) = g .. h - 1
      BY <1>1, <1>5, <3>1, PageRun
    <3> QED BY <1>4, <3>1, <3>2
  <2> QED BY <1>5, <1>9, <2>1, <2>2
<1>15. (IF p + (2 * size - s) > h * s + size
        THEN PagesBetween(h * s + size, p + (2 * size - s)) ELSE {}) = h + n .. g + 2 * n - 2
  <2>1. CASE h + n = g + 2 * n - 1
    BY <1>5, <1>10, <1>11, <2>1
  <2>2. CASE h + n < g + 2 * n - 1
    <3>1. /\ (h + n) * s + s <= (g + 2 * n - 1) * s
          /\ (h + n) * s \in Nat /\ (g + 2 * n - 1) * s \in Nat
      BY <1>5, <1>10, <2>2, MultMono
    <3>2. PagesBetween((h + n) * s, (g + 2 * n - 1) * s) = h + n .. g + 2 * n - 2
      <4>1. PICK e \in Nat \ {0} : e = g + 2 * n - 1
        BY <1>10
      <4>2. PICK f \in Nat \ {0} : f = h + n
        BY <1>11
      <4>3. PagesBetween(f * PageSize, e * PageSize) = f .. e - 1
        BY PageRun
      <4>4. e - 1 = g + 2 * n - 2
        BY <1>5, <4>1
      <4>5. (h + n) * s = f * PageSize /\ (g + 2 * n - 1) * s = e * PageSize
        BY <1>1, <4>1, <4>2
      <4> QED BY <4>2, <4>3, <4>4, <4>5
    <3> QED BY <1>5, <1>10, <1>11, <3>1, <3>2
  <2> QED BY <1>5, <1>9, <2>1, <2>2
<1>16. /\ reserve_aligned(p, size).ptr = h * s
       /\ reserve_aligned(p, size).mapped
            = (mapped \cup reserved) \ ((g .. h - 1) \cup (h + n .. g + 2 * n - 2))
  BY <1>1, <1>6, <1>8, <1>12, <1>14, <1>15 DEF reserve_aligned, nullptr
<1>17. kept \subseteq reserved /\ reserved \subseteq MmapPages \ mapped
  BY <1>4, <1>5, <1>9, <1>12
<1>18. (mapped \cup reserved) \ ((g .. h - 1) \cup (h + n .. g + 2 * n - 2)) = mapped \cup kept
  <2>1. kept = reserved \ ((g .. h - 1) \cup (h + n .. g + 2 * n - 2))
    BY <1>5, <1>9
  <2>2. (g .. h - 1) \cup (h + n .. g + 2 * n - 2) \subseteq reserved
    BY <1>5, <1>9
  <2> HIDE DEF kept, reserved
  <2> QED BY <1>17, <2>1, <2>2
<1>19. h * s \in Nat \ {0} /\ Aligned(h * s, bits)
  <2>1. (c * size + 0) % size = 0
    BY RemOfSum
  <2>2. c * size \in Nat
    OBVIOUS
  <2>3. Aligned(c * size, bits)
    BY <1>2, <2>1, <2>2 DEF Aligned
  <2> QED BY <1>5, <1>6, <1>8, <2>2, <2>3
<1> HIDE DEF kept, reserved
<1> QED BY <1>2, <1>13, <1>16, <1>17, <1>18, <1>19

(* When it fails and FailuresUnmapNothing, nothing changes.                *)
LEMMA PosixFails ==
  ASSUME FailuresUnmapNothing, ~AlignedAllocation, mapped \subseteq MmapPages,
         NEW w \in Sizes, NEW bits, bits = RefillSizeBits(BlockBits(w))
  PROVE  /\ reserve_aligned(nullptr, 2 ^ bits).ptr = nullptr
         /\ reserve_aligned(nullptr, 2 ^ bits).mapped = mapped
<1>1. w \in 0 .. AddressBits - 1
  BY SizesAre
<1>2. bits \in Nat
  BY <1>1, BlockBitsAre
<1>3. PICK size \in Nat \ {0} : size = 2 ^ bits
  BY <1>2, Pow2Pos
<1>4. PICK s \in Nat \ {0} : s = PageSize
  BY PageSizeIs
<1>5. ((0 + size - 1) \div size) * size = 0
  <2>1. size - 1 \in Nat /\ size - 1 < size
    OBVIOUS
  <2>2. (0 * size + (size - 1)) \div size = 0
    BY <2>1, RemOfSum
  <2>3. 0 * size + (size - 1) = 0 + size - 1
    OBVIOUS
  <2> QED BY <2>2, <2>3
<1>6. PagesBetween(size, 2 * size - s) \cap MmapPages = {}
  BY <1>3, <1>4 DEF FailuresUnmapNothing
<1>7. /\ reserve_aligned(0, size).ptr = 0
      /\ reserve_aligned(0, size).mapped
          = mapped \ (IF 0 + (2 * size - s) > 0 + size
                      THEN PagesBetween(0 + size, 0 + (2 * size - s)) ELSE {})
  BY <1>4, <1>5 DEF reserve_aligned, nullptr
<1>8. 0 + size = size /\ 0 + (2 * size - s) = 2 * size - s
  OBVIOUS
<1> QED BY <1>3, <1>6, <1>7, <1>8 DEF nullptr

(* Either system's reservation adds the pages of an aligned block to the   *)
(* mapped ones, or nothing.                                                *)
LEMMA Reserved ==
  ASSUME FailuresUnmapNothing, mapped \subseteq MmapPages,
         NEW w \in Sizes, NEW bits, bits = RefillSizeBits(BlockBits(w)),
         NEW res \in Reservations(2 ^ bits)
  PROVE  \/ res.ptr = nullptr /\ res.mapped = mapped
         \/ /\ res.ptr \in Nat \ {0} /\ Aligned(res.ptr, bits)
            /\ PagesOf(res.ptr, bits) \subseteq MmapPages \ mapped
            /\ res.mapped = mapped \cup PagesOf(res.ptr, bits)
<1>1. bits \in Nat /\ PageBits <= bits
  <2>1. w \in 0 .. AddressBits - 1
    BY SizesAre
  <2>2. /\ RefillSizeBits(BlockBits(w)) \in Nat /\ BlockBits(w) \in Nat
        /\ PageBits <= BlockBits(w) /\ BlockBits(w) <= RefillSizeBits(BlockBits(w))
    BY <2>1, BlockBitsAre
  <2> QED BY <2>2, SizesAre
<1>2. CASE AlignedAllocation
  <2>1. PICK p \in MachVmMap(2 ^ bits) : res = reserve_aligned_apple(p, 2 ^ bits)
    BY <1>2 DEF Reservations
  <2> QED BY <1>1, <2>1, AppleReserves
<1>3. CASE ~AlignedAllocation
  <2>1. PICK p \in Mmap(2 * 2 ^ bits - PageSize) : res = reserve_aligned(p, 2 ^ bits)
    BY <1>3 DEF Reservations
  <2>2. CASE p = nullptr
    BY <1>3, <2>1, <2>2, PosixFails
  <2>3. CASE p # nullptr
    BY <1>1, <2>1, <2>3, PosixReserves
  <2> QED BY <2>2, <2>3
<1> QED BY <1>2, <1>3

-----------------------------------------------------------------------------
(* Owners.  The owners of blocks are built from the blocks of each kind;    *)
(* those of the small buddies and of the calls come with the thread.        *)
OwnersApart(O) == \A a, b \in O : a # b => OwnedSpan(a) \cap OwnedSpan(b) = {}
OwnersCover(O) == UNION {OwnedSpan(own) : own \in O}

Owners(L, S, G, C) ==
  {<<"caller", b>> : b \in L} \cup {<<"small", s[1], s[2]>> : s \in S}
  \cup {<<"large", b>> : b \in G} \cup {<<"call", c[1], c[2]>> : c \in C}

Of(t, B) == {<<t, b>> : b \in B}

Pairs == SUBSET (Threads \X (Nat \X Nat))

(* The addresses of an owner are those of its block.                       *)
LEMMA OwnerSpans ==
  /\ \A b : OwnedSpan(<<"caller", b>>) = BlockSpan(b)
  /\ \A t, b : OwnedSpan(<<"small", t, b>>) = BlockSpan(b)
  /\ \A b : OwnedSpan(<<"large", b>>) = BlockSpan(b)
  /\ \A t, b : OwnedSpan(<<"call", t, b>>) = BlockSpan(b)
<1>1. \A b : Small!BlockSpan(b) = BlockSpan(b)
  BY DEF Small!BlockSpan, Small!Span, Small!one_at_bit, BlockSpan, Span
<1>2. \A x, b : Len(<<x, b>>) = 2 /\ <<x, b>>[2] = b
  OBVIOUS
<1>3. \A x, t, b : Len(<<x, t, b>>) = 3 /\ <<x, t, b>>[3] = b
  OBVIOUS
<1> QED BY <1>1, <1>2, <1>3 DEF OwnedSpan

(* Trading some owners for others of the same addresses.                    *)
LEMMA Swapped ==
  ASSUME NEW O, NEW X, NEW Y, X \subseteq O, OwnersCover(X) = OwnersCover(Y)
  PROVE  /\ OwnersCover((O \ X) \cup Y) = OwnersCover(O)
         /\ OwnersApart(O) /\ OwnersApart(Y) => OwnersApart((O \ X) \cup Y)
<1>1. OwnersCover((O \ X) \cup Y) = OwnersCover(O \ X) \cup OwnersCover(Y)
  BY DEF OwnersCover
<1>2. OwnersCover(O) = OwnersCover(O \ X) \cup OwnersCover(X)
  BY DEF OwnersCover
<1>3. ASSUME OwnersApart(O), OwnersApart(Y)
      PROVE  OwnersApart((O \ X) \cup Y)
  <2>1. \A a \in O \ X, b \in X : OwnedSpan(a) \cap OwnedSpan(b) = {}
    BY <1>3 DEF OwnersApart
  <2>2. \A a \in O \ X : OwnedSpan(a) \cap OwnersCover(Y) = {}
    BY <2>1 DEF OwnersCover
  <2>3. \A b \in Y : OwnedSpan(b) \subseteq OwnersCover(Y)
    BY DEF OwnersCover
  <2>4. \A a \in O \ X, b \in Y : OwnedSpan(a) \cap OwnedSpan(b) = {}
    BY <2>2, <2>3
  <2> QED BY <1>3, <2>4 DEF OwnersApart
<1> QED BY <1>1, <1>2, <1>3

(* Owners of fresh addresses may be added.                                  *)
LEMMA Added ==
  ASSUME NEW O, NEW Y, OwnersApart(O), OwnersApart(Y),
         OwnersCover(O) \cap OwnersCover(Y) = {}
  PROVE  /\ OwnersCover(O \cup Y) = OwnersCover(O) \cup OwnersCover(Y)
         /\ OwnersApart(O \cup Y)
<1>1. OwnersCover(O \cup Y) = OwnersCover(O) \cup OwnersCover(Y)
  BY DEF OwnersCover
<1>2. /\ \A a \in O : OwnedSpan(a) \subseteq OwnersCover(O)
      /\ \A a \in Y : OwnedSpan(a) \subseteq OwnersCover(Y)
  BY DEF OwnersCover
<1>3. \A a \in O, b \in Y : OwnedSpan(a) \cap OwnedSpan(b) = {}
  BY <1>2
<1> QED BY <1>1, <1>3 DEF OwnersApart

(* Changing the blocks of a kind changes the owners alike.                  *)
LEMMA OwnersMember ==
  ASSUME NEW L, NEW S, NEW G, NEW C, NEW x
  PROVE  x \in Owners(L, S, G, C) <=>
           \/ x[1] = "caller" /\ x = <<"caller", x[2]>> /\ x[2] \in L
           \/ x[1] = "small" /\ \E s \in S : x = <<"small", s[1], s[2]>>
           \/ x[1] = "large" /\ x = <<"large", x[2]>> /\ x[2] \in G
           \/ x[1] = "call" /\ \E c \in C : x = <<"call", c[1], c[2]>>
BY DEF Owners

(* A set from which some elements go and to which others come. *)
Traded(old, going, coming, new) == going \subseteq old /\ new = (old \ going) \cup coming

(* What the callers, the small trees, the large tree and the calls trade,  *)
(* all owners trade together.                                              *)
LEMMA OwnersTraded ==
  ASSUME NEW S \in Pairs, NEW C \in Pairs,
         NEW L, NEW L1, NEW L2, NEW L3, Traded(L, L1, L2, L3),
         NEW S1, NEW S2, NEW S3, Traded(S, S1, S2, S3),
         NEW G, NEW G1, NEW G2, NEW G3, Traded(G, G1, G2, G3),
         NEW C1, NEW C2, NEW C3, Traded(C, C1, C2, C3)
  PROVE  /\ Owners(L1, S1, G1, C1) \subseteq Owners(L, S, G, C)
         /\ Owners(L3, S3, G3, C3)
              = (Owners(L, S, G, C) \ Owners(L1, S1, G1, C1)) \cup Owners(L2, S2, G2, C2)
<1> USE DEF Traded
<1> DEFINE A == Owners(L3, S3, G3, C3)
           B == (Owners(L, S, G, C) \ Owners(L1, S1, G1, C1)) \cup Owners(L2, S2, G2, C2)
<1>1. \A s, u \in Threads \X (Nat \X Nat) :
        /\ <<"small", s[1], s[2]>> = <<"small", u[1], u[2]>> => s = u
        /\ <<"call", s[1], s[2]>> = <<"call", u[1], u[2]>> => s = u
  <2> TAKE s, u \in Threads \X (Nat \X Nat)
  <2>1. s = <<s[1], s[2]>> /\ u = <<u[1], u[2]>>
    OBVIOUS
  <2>2. <<"small", s[1], s[2]>> = <<"small", u[1], u[2]>> => s[1] = u[1] /\ s[2] = u[2]
    OBVIOUS
  <2>3. <<"call", s[1], s[2]>> = <<"call", u[1], u[2]>> => s[1] = u[1] /\ s[2] = u[2]
    OBVIOUS
  <2> QED BY <2>1, <2>2, <2>3
<1>2. ASSUME NEW x PROVE x \in A <=> x \in B
  <2>1. CASE x[1] = "caller"
    BY <2>1, OwnersMember
  <2>2. CASE x[1] = "large"
    BY <2>2, OwnersMember
  <2>3. CASE x[1] = "small"
    <3>1. \A L0, S0, G0, C0 : x \in Owners(L0, S0, G0, C0) <=> \E s \in S0 : x = <<"small", s[1], s[2]>>
      BY <2>3, OwnersMember
    <3> QED BY <3>1, <1>1 DEF Pairs
  <2>4. CASE x[1] = "call"
    <3>1. \A L0, S0, G0, C0 : x \in Owners(L0, S0, G0, C0) <=> \E c \in C0 : x = <<"call", c[1], c[2]>>
      BY <2>4, OwnersMember
    <3> QED BY <3>1, <1>1 DEF Pairs
  <2>5. CASE x[1] \notin {"caller", "small", "large", "call"}
    BY <2>5, OwnersMember
  <2> QED BY <2>1, <2>2, <2>3, <2>4, <2>5
<1> HIDE DEF A, B
<1>3. A = B
  BY <1>2
<1>4. Owners(L1, S1, G1, C1) \subseteq Owners(L, S, G, C)
  BY DEF Owners
<1> QED BY <1>3, <1>4 DEF A, B

(* What owners own together.                                                *)
LEMMA CoverOfOwners ==
  ASSUME NEW L, NEW S, NEW G, NEW C
  PROVE  OwnersCover(Owners(L, S, G, C))
           = UNION {Cover(L), Cover({s[2] : s \in S}), Cover(G), Cover({c[2] : c \in C})}
<1> DEFINE A == OwnersCover(Owners(L, S, G, C))
           B == UNION {Cover(L), Cover({s[2] : s \in S}), Cover(G), Cover({c[2] : c \in C})}
<1>1. ASSUME NEW a \in A PROVE a \in B
  <2>1. PICK own \in Owners(L, S, G, C) : a \in OwnedSpan(own)
    BY <1>1 DEF OwnersCover
  <2>2. CASE own \in {<<"caller", b>> : b \in L}
    BY <2>1, <2>2, OwnerSpans DEF Cover
  <2>3. CASE own \in {<<"small", s[1], s[2]>> : s \in S}
    BY <2>1, <2>3, OwnerSpans DEF Cover
  <2>4. CASE own \in {<<"large", b>> : b \in G}
    BY <2>1, <2>4, OwnerSpans DEF Cover
  <2>5. CASE own \in {<<"call", c[1], c[2]>> : c \in C}
    BY <2>1, <2>5, OwnerSpans DEF Cover
  <2> QED BY <2>1, <2>2, <2>3, <2>4, <2>5 DEF Owners
<1>2. ASSUME NEW a \in B PROVE a \in A
  <2>1. ASSUME NEW own \in Owners(L, S, G, C), a \in OwnedSpan(own) PROVE a \in A
    BY <2>1 DEF OwnersCover
  <2>2. CASE a \in Cover(L)
    <3>1. PICK b \in L : a \in BlockSpan(b)
      BY <2>2 DEF Cover
    <3>2. <<"caller", b>> \in Owners(L, S, G, C)
      BY DEF Owners
    <3> QED BY <2>1, <3>1, <3>2, OwnerSpans
  <2>3. CASE a \in Cover({s[2] : s \in S})
    <3>1. PICK s \in S : a \in BlockSpan(s[2])
      BY <2>3 DEF Cover
    <3>2. <<"small", s[1], s[2]>> \in Owners(L, S, G, C)
      BY DEF Owners
    <3> QED BY <2>1, <3>1, <3>2, OwnerSpans
  <2>4. CASE a \in Cover(G)
    <3>1. PICK b \in G : a \in BlockSpan(b)
      BY <2>4 DEF Cover
    <3>2. <<"large", b>> \in Owners(L, S, G, C)
      BY DEF Owners
    <3> QED BY <2>1, <3>1, <3>2, OwnerSpans
  <2>5. CASE a \in Cover({c[2] : c \in C})
    <3>1. PICK c \in C : a \in BlockSpan(c[2])
      BY <2>5 DEF Cover
    <3>2. <<"call", c[1], c[2]>> \in Owners(L, S, G, C)
      BY DEF Owners
    <3> QED BY <2>1, <3>1, <3>2, OwnerSpans
  <2> QED BY <2>2, <2>3, <2>4, <2>5
<1> HIDE DEF A, B
<1>3. A = B
  BY <1>1, <1>2
<1> QED BY <1>3 DEF A, B

(* The blocks a thread has, with its name taken off.                       *)
LEMMA BlocksOf ==
  ASSUME NEW t, NEW B
  PROVE  {s[2] : s \in Of(t, B)} = B
<1>1. \A b : <<t, b>>[2] = b
  OBVIOUS
<1>2. ASSUME NEW x \in {s[2] : s \in Of(t, B)} PROVE x \in B
  BY <1>1 DEF Of
<1>3. ASSUME NEW x \in B PROVE x \in {s[2] : s \in Of(t, B)}
  <2>1. <<t, x>> \in Of(t, B)
    BY DEF Of
  <2> QED BY <1>1, <2>1
<1> QED BY <1>2, <1>3

(* The addresses of a union of sets of blocks.                             *)
LEMMA CoverTogether ==
  /\ Cover({}) = {}
  /\ \A A, B : Cover(A \cup B) = Cover(A) \cup Cover(B)
  /\ \A b : Cover({b}) = BlockSpan(b)
BY DEF Cover

(* A block that is joined with free blocks, or split into pieces.           *)
LEMMA OwnersOfJoined ==
  ASSUME NEW t, NEW taken, NEW joined
  PROVE  /\ OwnersCover(Owners(taken, Of(t, joined), {}, {})) = Cover(taken \cup joined)
         /\ OwnersCover(Owners({}, {}, joined, Of(t, taken))) = Cover(taken \cup joined)
<1>1. {s[2] : s \in Of(t, joined)} = joined /\ {s[2] : s \in Of(t, taken)} = taken
  BY BlocksOf
<1>2. {s[2] : s \in {}} = {}
  OBVIOUS
<1>3. OwnersCover(Owners(taken, Of(t, joined), {}, {})) = UNION {Cover(taken), Cover(joined), Cover({})}
  <2>1. OwnersCover(Owners(taken, Of(t, joined), {}, {}))
          = UNION {Cover(taken), Cover({s[2] : s \in Of(t, joined)}), Cover({}), Cover({c[2] : c \in {}})}
    BY CoverOfOwners
  <2> QED BY <1>1, <1>2, <2>1
<1>4. OwnersCover(Owners({}, {}, joined, Of(t, taken))) = UNION {Cover({}), Cover(joined), Cover(taken)}
  <2>1. OwnersCover(Owners({}, {}, joined, Of(t, taken)))
          = UNION {Cover({}), Cover({s[2] : s \in {}}), Cover(joined), Cover({c[2] : c \in Of(t, taken)})}
    BY CoverOfOwners
  <2> QED BY <1>1, <1>2, <2>1
<1>5. Cover({}) = {} /\ Cover(taken \cup joined) = Cover(taken) \cup Cover(joined)
  BY CoverTogether
<1> QED BY <1>3, <1>4, <1>5

(* The owners of a freed block and of the free halves it is joined with    *)
(* have the addresses of the block they make.                              *)
LEMMA OwnersOfMerged ==
  ASSUME NEW t, NEW blk, NEW joined, NEW merged, Joins(blk, joined, merged)
  PROVE  /\ OwnersCover(Owners({blk}, Of(t, joined), {}, {})) = BlockSpan(merged)
         /\ OwnersCover(Owners({}, {}, joined, Of(t, {blk}))) = BlockSpan(merged)
<1>1. /\ OwnersCover(Owners({blk}, Of(t, joined), {}, {})) = Cover({blk} \cup joined)
      /\ OwnersCover(Owners({}, {}, joined, Of(t, {blk}))) = Cover({blk} \cup joined)
  BY OwnersOfJoined
<1> QED BY <1>1 DEF Joins

(* The owners of a split block's parts are apart, and have the addresses   *)
(* of the block.                                                           *)
LEMMA OwnersOfPieces ==
  ASSUME NEW t, NEW old, NEW piece, NEW rest, Splits(old, piece, rest)
  PROVE  /\ OwnersApart(Owners({piece}, Of(t, rest), {}, {}))
         /\ OwnersCover(Owners({piece}, Of(t, rest), {}, {})) = BlockSpan(old)
         /\ OwnersApart(Owners({}, {}, rest, Of(t, {piece})))
         /\ OwnersCover(Owners({}, {}, rest, Of(t, {piece}))) = BlockSpan(old)
<1>1. /\ \A a, b \in {piece} \cup rest : a # b => BlockSpan(a) \cap BlockSpan(b) = {}
      /\ Cover({piece} \cup rest) = BlockSpan(old)
      /\ piece \notin rest
  BY DEF Splits, Apart
<1>2. ASSUME NEW x \in Owners({piece}, Of(t, rest), {}, {})
      PROVE  \/ x = <<"caller", piece>> /\ OwnedSpan(x) = BlockSpan(piece)
             \/ \E b \in rest : x = <<"small", t, b>> /\ OwnedSpan(x) = BlockSpan(b)
  <2>1. \/ x = <<"caller", piece>>
        \/ \E s \in Of(t, rest) : x = <<"small", s[1], s[2]>>
    BY DEF Owners
  <2>2. \A s \in Of(t, rest) : \E b \in rest : s[1] = t /\ s[2] = b
    BY DEF Of
  <2>3. x = <<"caller", piece>> \/ \E b \in rest : x = <<"small", t, b>>
    BY <2>1, <2>2
  <2> QED BY <2>3, OwnerSpans
<1>3. OwnersApart(Owners({piece}, Of(t, rest), {}, {}))
  BY <1>1, <1>2 DEF OwnersApart
<1>4. ASSUME NEW x \in Owners({}, {}, rest, Of(t, {piece}))
      PROVE  \/ x = <<"call", t, piece>> /\ OwnedSpan(x) = BlockSpan(piece)
             \/ \E b \in rest : x = <<"large", b>> /\ OwnedSpan(x) = BlockSpan(b)
  <2>1. \/ \E b \in rest : x = <<"large", b>>
        \/ \E s \in Of(t, {piece}) : x = <<"call", s[1], s[2]>>
    BY DEF Owners
  <2>2. \A s \in Of(t, {piece}) : s[1] = t /\ s[2] = piece
    BY DEF Of
  <2>3. x = <<"call", t, piece>> \/ \E b \in rest : x = <<"large", b>>
    BY <2>1, <2>2
  <2> QED BY <2>3, OwnerSpans
<1>5. OwnersApart(Owners({}, {}, rest, Of(t, {piece})))
  BY <1>1, <1>4 DEF OwnersApart
<1>6. /\ OwnersCover(Owners({piece}, Of(t, rest), {}, {})) = Cover({piece} \cup rest)
      /\ OwnersCover(Owners({}, {}, rest, Of(t, {piece}))) = Cover({piece} \cup rest)
  BY OwnersOfJoined
<1> QED BY <1>1, <1>3, <1>5, <1>6

(* A block that stays whole.                                                *)
LEMMA OwnersOfOne ==
  ASSUME NEW t, NEW b
  PROVE  /\ OwnersCover(Owners({b}, {}, {}, {})) = BlockSpan(b)
         /\ OwnersCover(Owners({}, Of(t, {b}), {}, {})) = BlockSpan(b)
         /\ OwnersCover(Owners({}, {}, {b}, {})) = BlockSpan(b)
         /\ OwnersCover(Owners({}, {}, {}, Of(t, {b}))) = BlockSpan(b)
         /\ OwnersApart(Owners({b}, {}, {}, {})) /\ OwnersApart(Owners({}, Of(t, {b}), {}, {}))
         /\ OwnersApart(Owners({}, {}, {b}, {})) /\ OwnersApart(Owners({}, {}, {}, Of(t, {b})))
<1>1. Of(t, {b}) = {<<t, b>>} /\ <<t, b>>[1] = t /\ <<t, b>>[2] = b
  BY DEF Of
<1>2. /\ Owners({b}, {}, {}, {}) = {<<"caller", b>>}
      /\ Owners({}, {}, {b}, {}) = {<<"large", b>>}
  BY DEF Owners
<1>3. Owners({}, Of(t, {b}), {}, {}) = {<<"small", t, b>>}
  BY <1>1 DEF Owners
<1>4. Owners({}, {}, {}, Of(t, {b})) = {<<"call", t, b>>}
  BY <1>1 DEF Owners
<1>5. \A x : OwnersCover({x}) = OwnedSpan(x)
  BY DEF OwnersCover
<1>6. \A x : OwnersApart({x})
  BY DEF OwnersApart
<1>7. /\ OwnersCover({<<"caller", b>>}) = BlockSpan(b)
      /\ OwnersCover({<<"small", t, b>>}) = BlockSpan(b)
      /\ OwnersCover({<<"large", b>>}) = BlockSpan(b)
      /\ OwnersCover({<<"call", t, b>>}) = BlockSpan(b)
  BY <1>5, OwnerSpans, ZenonT(40)
<1> QED BY <1>2, <1>3, <1>4, <1>6, <1>7

-----------------------------------------------------------------------------
(* The invariant.                                                          *)
(* The free blocks of the small buddies, of the large one, and the blocks   *)
(* of the calls whose step is not in Hidden.                                *)
FreeInSmall == UNION {Of(t, SmallBlocks(t)) : t \in Threads}
FreeInLarge == Large!FreeBlocks(large)
CallOf(t, Hidden) == IF ptr[t] # nullptr /\ pc[t] \notin Hidden THEN Of(t, {CallBlock(t)}) ELSE {}
Calls(Hidden) == UNION {CallOf(t, Hidden) : t \in Threads}

Uncommitted == {"commit", "lock_dealloc"}
Uncounted == {"commit", "stats_add", "decommit", "lock_dealloc"}

AllOwners == Owners(live, FreeInSmall, FreeInLarge, Calls({}))
CommittedOwners == Owners(live, FreeInSmall, {}, Calls(Uncommitted))
CountedOwners == Owners(live, FreeInSmall, {}, Calls(Uncounted))

AllocSteps == {"lock_alloc", "commit", "stats_add", "peak_load", "peak_cas", "return"}
FreeSteps == {"stats_sub", "decommit", "lock_dealloc"}
Steps == {"idle", "exited"} \cup AllocSteps \cup FreeSteps

Shapes ==
  /\ mapped \subseteq MmapPages
  /\ writable \subseteq mapped
  /\ registered \subseteq MmapPages
  /\ large \in [Large!BlockBits -> SUBSET Nat]
  /\ small \in [Threads -> [Small!BlockBits -> SUBSET Nat]]
  /\ live \subseteq Nat \X Sizes
  /\ pc \in [Threads -> Steps]
  /\ want \in [Threads -> 0 .. AddressBits - 1]
  /\ ptr \in [Threads -> Nat]

(* What a call has at each of its steps. *)
Control ==
  \A t \in Threads :
    /\ pc[t] \in {"idle", "exited", "lock_alloc"} => ptr[t] = nullptr
    /\ pc[t] \in AllocSteps => want[t] \in Sizes
    /\ pc[t] \in (AllocSteps \cup FreeSteps) \ {"lock_alloc", "return"} => ptr[t] # nullptr
    /\ pc[t] \in FreeSteps => want[t] >= PageBits
    /\ ptr[t] # nullptr => Aligned(ptr[t], BlockBits(want[t]))

(* Blocks are aligned to their size, and no tree holds both halves of one. *)
Placed ==
  /\ AllAligned(live)
  /\ \A t \in Threads : AllAligned(SmallBlocks(t)) /\ Merged(small[t])
  /\ AllAligned(FreeInLarge)

(* A thread asks for a page only if its tree has no block for the request. *)
Exhausted ==
  \A t \in Threads :
    pc[t] \in AllocSteps /\ want[t] < PageBits => Small!Donors(small[t], want[t]) = {}

(* Addresses of pages. *)
AddressesOf(pages) == {a \in Nat : a \div PageSize \in pages}

(* Every mapped address has one owner. *)
Memory == OwnersApart(AllOwners) /\ OwnersCover(AllOwners) = AddressesOf(mapped)

Base == Shapes /\ Control /\ Placed /\ Exhausted /\ Memory

(* What the properties call Owned and Counted are the owners that the      *)
(* proof trades.                                                           *)
LEMMA OwnedIs ==
  ASSUME Shapes, Control
  PROVE  Owned = AllOwners /\ Counted = CountedOwners
<1>1. Working = {t \in Threads : ptr[t] # nullptr}
  BY DEF Working, Busy, Shapes, Control, Steps, AllocSteps, FreeSteps
<1>2. UNION {{<<"small", t, blk>> : blk \in SmallBlocks(t)} : t \in Threads}
        = {<<"small", s[1], s[2]>> : s \in FreeInSmall}
  <2> DEFINE A == UNION {{<<"small", t, blk>> : blk \in SmallBlocks(t)} : t \in Threads}
             B == {<<"small", s[1], s[2]>> : s \in FreeInSmall}
  <2>1. ASSUME NEW x \in A PROVE x \in B
    <3>1. PICK t \in Threads : \E blk \in SmallBlocks(t) : x = <<"small", t, blk>>
      OBVIOUS
    <3> PICK blk \in SmallBlocks(t) : x = <<"small", t, blk>>
      BY <3>1
    <3>2. <<t, blk>> \in FreeInSmall /\ <<t, blk>>[1] = t /\ <<t, blk>>[2] = blk
      BY DEF FreeInSmall, Of
    <3> QED BY <3>2
  <2>2. ASSUME NEW x \in B PROVE x \in A
    <3>1. PICK s \in FreeInSmall : x = <<"small", s[1], s[2]>>
      OBVIOUS
    <3>2. PICK t \in Threads : \E blk \in SmallBlocks(t) : s = <<t, blk>>
      BY DEF FreeInSmall, Of
    <3> PICK blk \in SmallBlocks(t) : s = <<t, blk>>
      BY <3>2
    <3>3. x = <<"small", t, blk>>
      BY <3>1, <3>2
    <3> QED BY <3>3
  <2> HIDE DEF A, B
  <2>3. A = B
    BY <2>1, <2>2
  <2> QED BY <2>3 DEF A, B
<1>3. \A H : {<<"call", t, CallBlock(t)>> : t \in {u \in Threads : ptr[u] # nullptr /\ pc[u] \notin H}}
        = {<<"call", c[1], c[2]>> : c \in Calls(H)}
  <2> TAKE H
  <2> DEFINE A == {<<"call", t, CallBlock(t)>> : t \in {u \in Threads : ptr[u] # nullptr /\ pc[u] \notin H}}
             B == {<<"call", c[1], c[2]>> : c \in Calls(H)}
  <2>1. ASSUME NEW x \in A PROVE x \in B
    <3>1. PICK t \in Threads : ptr[t] # nullptr /\ pc[t] \notin H /\ x = <<"call", t, CallBlock(t)>>
      OBVIOUS
    <3>2. /\ <<t, CallBlock(t)>> \in Calls(H)
          /\ <<t, CallBlock(t)>>[1] = t /\ <<t, CallBlock(t)>>[2] = CallBlock(t)
      BY <3>1 DEF Calls, CallOf, Of
    <3> QED BY <3>1, <3>2
  <2>2. ASSUME NEW x \in B PROVE x \in A
    <3>1. PICK c \in Calls(H) : x = <<"call", c[1], c[2]>>
      OBVIOUS
    <3>2. PICK t \in Threads : ptr[t] # nullptr /\ pc[t] \notin H /\ c = <<t, CallBlock(t)>>
      BY DEF Calls, CallOf, Of
    <3>3. x = <<"call", t, CallBlock(t)>>
      BY <3>1, <3>2
    <3> QED BY <3>2, <3>3
  <2> HIDE DEF A, B
  <2>3. A = B
    BY <2>1, <2>2
  <2> QED BY <2>3 DEF A, B
<1>4. Owned = AllOwners
  <2>1. {<<"call", t, CallBlock(t)>> : t \in Working} = {<<"call", c[1], c[2]>> : c \in Calls({})}
    <3>1. Working = {u \in Threads : ptr[u] # nullptr /\ pc[u] \notin {}}
      BY <1>1
    <3> QED BY <1>3, <3>1
  <2> DEFINE c1 == {<<"caller", b>> : b \in live}
             s1 == UNION {{<<"small", t, blk>> : blk \in SmallBlocks(t)} : t \in Threads}
             s2 == {<<"small", s[1], s[2]>> : s \in FreeInSmall}
             l1 == {<<"large", b>> : b \in Large!FreeBlocks(large)}
             p1 == {<<"call", t, CallBlock(t)>> : t \in Working}
             p2 == {<<"call", c[1], c[2]>> : c \in Calls({})}
  <2>2. Owned = c1 \cup s1 \cup l1 \cup p1
    BY Zenon DEF Owned
  <2>3. AllOwners = c1 \cup s2 \cup l1 \cup p2
    BY Zenon DEF AllOwners, Owners, FreeInLarge
  <2>4. s1 = s2 /\ p1 = p2
    BY <1>2, <2>1
  <2> HIDE DEF c1, s1, s2, l1, p1, p2
  <2> QED BY <2>2, <2>3, <2>4
<1>5. Counted = CountedOwners
  <2> DEFINE caller == {<<"caller", b>> : b \in live}
             small_ == {<<"small", s[1], s[2]>> : s \in FreeInSmall}
             large_ == {<<"large", b>> : b \in FreeInLarge}
             call == {<<"call", t, CallBlock(t)>> : t \in {u \in Threads : ptr[u] # nullptr}}
             counted == {<<"call", t, CallBlock(t)>> :
                           t \in {u \in Threads : ptr[u] # nullptr /\ pc[u] \notin Uncounted}}
             Ok(own) == \/ own[1] \in {"caller", "small"}
                        \/ own[1] = "call" /\ pc[own[2]] \notin Uncounted
  <2>1. Owned = caller \cup small_ \cup large_ \cup call
    <3> DEFINE s1 == UNION {{<<"small", t, blk>> : blk \in SmallBlocks(t)} : t \in Threads}
               p1 == {<<"call", t, CallBlock(t)>> : t \in Working}
    <3>1. Owned = caller \cup s1 \cup large_ \cup p1
      BY Zenon DEF Owned, FreeInLarge
    <3>2. s1 = small_ /\ p1 = call
      BY <1>1, <1>2
    <3> HIDE DEF s1, p1, caller, large_, small_, call
    <3> QED BY <3>1, <3>2
  <2>2. Counted = {own \in Owned : Ok(own)}
    BY DEF Counted, Uncounted
  <2>3. \A own \in caller \cup small_ : Ok(own)
    OBVIOUS
  <2>4. \A own \in large_ : ~Ok(own)
    OBVIOUS
  <2>5. \A own \in call : Ok(own) <=> own \in counted
    <3>1. ASSUME NEW t \in Threads
          PROVE  /\ <<"call", t, CallBlock(t)>>[1] = "call"
                 /\ <<"call", t, CallBlock(t)>>[2] = t
      OBVIOUS
    <3>2. \A own \in call : Ok(own) => own \in counted
      BY <3>1
    <3>3. \A own \in counted : Ok(own)
      BY <3>1
    <3> QED BY <3>2, <3>3
  <2>6. counted \subseteq call
    OBVIOUS
  <2>7. CountedOwners = caller \cup small_ \cup counted
    BY <1>3 DEF CountedOwners, Owners
  <2> HIDE DEF caller, small_, large_, call, counted, Ok
  <2> QED BY <2>1, <2>2, <2>3, <2>4, <2>5, <2>6, <2>7
<1> QED BY <1>4, <1>5

-----------------------------------------------------------------------------
(* What a step changes.                                                    *)
LEMMA SmallChanges ==
  ASSUME Shapes, NEW t \in Threads, NEW x, small' = [small EXCEPT ![t] = x],
         NEW A \in SUBSET SmallBlocks(t), NEW B,
         Small!FreeBlocks(x) = (SmallBlocks(t) \ A) \cup B
  PROVE  Traded(FreeInSmall, Of(t, A), Of(t, B), FreeInSmall')
<1>1. small'[t] = x /\ \A u \in Threads \ {t} : small'[u] = small[u]
  BY DEF Shapes
<1>2. /\ SmallBlocks(t)' = (SmallBlocks(t) \ A) \cup B
      /\ \A u \in Threads \ {t} : SmallBlocks(u)' = SmallBlocks(u)
  BY <1>1 DEF SmallBlocks
<1> DEFINE X == (FreeInSmall \ Of(t, A)) \cup Of(t, B)
<1>3. ASSUME NEW s \in FreeInSmall' PROVE s \in X
  <2>1. PICK u \in Threads : \E b \in SmallBlocks(u)' : s = <<u, b>>
    BY DEF FreeInSmall, Of
  <2> PICK b \in SmallBlocks(u)' : s = <<u, b>>
    BY <2>1
  <2>2. CASE u = t
    <3>1. b \in B \/ (b \in SmallBlocks(t) /\ b \notin A)
      BY <1>2, <2>2
    <3>2. CASE b \in B
      BY <2>2, <3>2 DEF Of
    <3>3. CASE b \in SmallBlocks(t) /\ b \notin A
      <4>1. <<t, b>> \notin Of(t, A)
        BY <3>3 DEF Of
      <4>2. <<t, b>> \in FreeInSmall
        BY <3>3 DEF FreeInSmall, Of
      <4> QED BY <2>2, <4>1, <4>2
    <3> QED BY <3>1, <3>2, <3>3
  <2>3. CASE u # t
    <3>1. b \in SmallBlocks(u)
      BY <1>2, <2>3
    <3>2. <<u, b>> \in FreeInSmall
      BY <3>1 DEF FreeInSmall, Of
    <3>3. <<u, b>> \notin Of(t, A)
      BY <2>3 DEF Of
    <3> QED BY <3>2, <3>3
  <2> QED BY <2>2, <2>3
<1>4. ASSUME NEW s \in X PROVE s \in FreeInSmall'
  <2>0. ASSUME NEW u \in Threads, NEW b \in SmallBlocks(u)' PROVE <<u, b>> \in FreeInSmall'
    BY DEF FreeInSmall, Of
  <2>1. CASE s \in Of(t, B)
    <3>1. PICK b \in B : s = <<t, b>>
      BY <2>1 DEF Of
    <3> QED BY <1>2, <2>0, <3>1
  <2>2. CASE s \in FreeInSmall /\ s \notin Of(t, A)
    <3>1. PICK u \in Threads : \E b \in SmallBlocks(u) : s = <<u, b>>
      BY <2>2 DEF FreeInSmall, Of
    <3> PICK b \in SmallBlocks(u) : s = <<u, b>>
      BY <3>1
    <3>2. CASE u = t
      <4>1. b \notin A
        BY <2>2, <3>2 DEF Of
      <4> QED BY <1>2, <2>0, <3>2, <4>1
    <3>3. CASE u # t
      BY <1>2, <2>0, <3>3
    <3> QED BY <3>2, <3>3
  <2> QED BY <2>1, <2>2
<1> HIDE DEF X
<1>5. FreeInSmall' = X
  BY <1>3, <1>4
<1>6. Of(t, A) \subseteq FreeInSmall
  BY DEF FreeInSmall, Of
<1> QED BY <1>5, <1>6 DEF X, Traded

(* If only one thread's locals change, only that thread's call changes     *)
(* among the owners.                                                       *)
LEMMA CallsChange ==
  ASSUME NEW t \in Threads,
         \A u \in Threads \ {t} : pc'[u] = pc[u] /\ ptr'[u] = ptr[u] /\ want'[u] = want[u]
  PROVE  \A Hidden : Traded(Calls(Hidden), CallOf(t, Hidden), CallOf(t, Hidden)', Calls(Hidden)')
<1> TAKE Hidden
<1>1. \A u \in Threads \ {t} : CallOf(u, Hidden)' = CallOf(u, Hidden)
  BY DEF CallOf, CallBlock
<1>2. \A u, b : <<u, b>>[1] = u
  OBVIOUS
<1>3. \A u : \A s \in CallOf(u, Hidden) : s[1] = u
  BY <1>2 DEF CallOf, Of
<1>4. \A u \in Threads \ {t} : CallOf(u, Hidden) \cap CallOf(t, Hidden) = {}
  BY <1>3
<1>5. Calls(Hidden) = UNION {CallOf(u, Hidden) : u \in Threads}
  BY DEF Calls
<1>6. Calls(Hidden)' = UNION {CallOf(u, Hidden)' : u \in Threads}
  BY DEF Calls
<1> QED BY <1>1, <1>4, <1>5, <1>6 DEF Traded

(* Elements of the tagged sets are pairs of a thread and a block.           *)
LEMMA PairsOfThreads ==
  ASSUME Shapes
  PROVE  /\ FreeInSmall \in Pairs
         /\ \A t \in Threads : \A Hidden : CallOf(t, Hidden) \in Pairs
         /\ \A Hidden : Calls(Hidden) \in Pairs
         /\ FreeInLarge \subseteq Nat \X Large!BlockBits
         /\ \A t \in Threads : SmallBlocks(t) \subseteq Nat \X Small!BlockBits
         /\ Small!BlockBits \subseteq Nat /\ Large!BlockBits \subseteq Nat
<1>1. Small!BlockBits \subseteq Nat /\ Large!BlockBits \subseteq Nat
  BY SmallSame, LargeSame, SizesAre
<1>2. FreeInLarge \subseteq Nat \X Large!BlockBits
  BY LargeFree DEF Shapes, FreeInLarge
<1>3. \A t \in Threads : SmallBlocks(t) \subseteq Nat \X Small!BlockBits
  <2> TAKE t \in Threads
  <2>1. small[t] \in [Small!BlockBits -> SUBSET Nat]
    BY DEF Shapes
  <2> QED BY <2>1, SmallFree DEF SmallBlocks
<1>4. FreeInSmall \in Pairs
  <2>1. ASSUME NEW s \in FreeInSmall PROVE s \in Threads \X (Nat \X Nat)
    <3>1. PICK t \in Threads : \E b \in SmallBlocks(t) : s = <<t, b>>
      BY DEF FreeInSmall, Of
    <3> PICK b \in SmallBlocks(t) : s = <<t, b>>
      BY <3>1
    <3>2. b \in Nat \X Nat
      BY <1>1, <1>3
    <3> QED BY <3>2
  <2> QED BY <2>1 DEF Pairs
<1>5. \A t \in Threads : CallBlock(t) \in Nat \X Nat
  <2> TAKE t \in Threads
  <2>1. ptr[t] \in Nat /\ want[t] \in 0 .. AddressBits - 1
    BY DEF Shapes
  <2>2. BlockBits(want[t]) \in Nat
    BY <2>1, BlockBitsAre
  <2> QED BY <2>1, <2>2 DEF CallBlock
<1>6. \A t \in Threads : \A Hidden : CallOf(t, Hidden) \in Pairs
  BY <1>5 DEF CallOf, Of, Pairs
<1>7. \A Hidden : Calls(Hidden) \in Pairs
  BY <1>6 DEF Calls, Pairs
<1> QED BY <1>1, <1>2, <1>3, <1>4, <1>6, <1>7

(* A step that trades blocks for others of the same addresses, and does not *)
(* change the pages.                                                        *)
MemoryKept ==
  /\ OwnersApart(AllOwners) => OwnersApart(AllOwners')
  /\ OwnersCover(AllOwners') = OwnersCover(AllOwners)
  /\ OwnersCover(CommittedOwners') = OwnersCover(CommittedOwners)
  /\ OwnersCover(CountedOwners') = OwnersCover(CountedOwners)

(* A step that trades owners for others, apart and with the same           *)
(* addresses, keeps every address with one owner.                          *)
LEMMA TradeKeeps ==
  ASSUME Shapes, NEW t \in Threads,
         \A u \in Threads \ {t} : pc'[u] = pc[u] /\ ptr'[u] = ptr[u] /\ want'[u] = want[u],
         NEW L1, NEW L2, Traded(live, L1, L2, live'),
         NEW S1, NEW S2, Traded(FreeInSmall, S1, S2, FreeInSmall'),
         NEW G1, NEW G2, Traded(FreeInLarge, G1, G2, FreeInLarge'),
         OwnersCover(Owners(L1, S1, G1, CallOf(t, {})))
           = OwnersCover(Owners(L2, S2, G2, CallOf(t, {})')),
         OwnersApart(Owners(L2, S2, G2, CallOf(t, {})')),
         OwnersCover(Owners(L1, S1, {}, CallOf(t, Uncommitted)))
           = OwnersCover(Owners(L2, S2, {}, CallOf(t, Uncommitted)')),
         OwnersCover(Owners(L1, S1, {}, CallOf(t, Uncounted)))
           = OwnersCover(Owners(L2, S2, {}, CallOf(t, Uncounted)'))
  PROVE  MemoryKept
<1>1. \A H : Traded(Calls(H), CallOf(t, H), CallOf(t, H)', Calls(H)')
  BY CallsChange
<1>2. FreeInSmall \in Pairs /\ \A H : Calls(H) \in Pairs
  BY PairsOfThreads
<1>4. /\ OwnersCover(AllOwners') = OwnersCover(AllOwners)
      /\ OwnersApart(AllOwners) => OwnersApart(AllOwners')
  <2> DEFINE X == Owners(L1, S1, G1, CallOf(t, {}))
             Y == Owners(L2, S2, G2, CallOf(t, {})')
  <2>1. Traded(Calls({}), CallOf(t, {}), CallOf(t, {})', Calls({})') /\ Calls({}) \in Pairs
    BY <1>1, <1>2
  <2>2. X \subseteq AllOwners /\ AllOwners' = (AllOwners \ X) \cup Y
    <3>1. AllOwners' = Owners(live', FreeInSmall', FreeInLarge', Calls({})')
      BY DEF AllOwners
    <3>2. Traded(FreeInLarge, G1, G2, FreeInLarge')
      OBVIOUS
    <3>3. /\ Owners(L1, S1, G1, CallOf(t, {})) \subseteq Owners(live, FreeInSmall, FreeInLarge, Calls({}))
          /\ Owners(live', FreeInSmall', FreeInLarge', Calls({})')
               = (Owners(live, FreeInSmall, FreeInLarge, Calls({})) \ Owners(L1, S1, G1, CallOf(t, {})))
                 \cup Owners(L2, S2, G2, CallOf(t, {})')
      BY <1>2, <2>1, <3>2, OwnersTraded
    <3> QED BY <3>1, <3>3 DEF AllOwners
  <2>3. OwnersCover(X) = OwnersCover(Y) /\ OwnersApart(Y)
    OBVIOUS
  <2> HIDE DEF X, Y
  <2>4. OwnersCover((AllOwners \ X) \cup Y) = OwnersCover(AllOwners)
    BY <2>2, <2>3, Swapped
  <2>5. OwnersApart(AllOwners) => OwnersApart((AllOwners \ X) \cup Y)
    BY <2>2, <2>3, Swapped
  <2> QED BY <2>2, <2>4, <2>5
<1>5. OwnersCover(CommittedOwners') = OwnersCover(CommittedOwners)
  <2> DEFINE X == Owners(L1, S1, {}, CallOf(t, Uncommitted))
             Y == Owners(L2, S2, {}, CallOf(t, Uncommitted)')
  <2>1. Traded(Calls(Uncommitted), CallOf(t, Uncommitted), CallOf(t, Uncommitted)', Calls(Uncommitted)') /\ Calls(Uncommitted) \in Pairs
    BY <1>1, <1>2
  <2>2. X \subseteq CommittedOwners /\ CommittedOwners' = (CommittedOwners \ X) \cup Y
    <3>1. CommittedOwners' = Owners(live', FreeInSmall', {}, Calls(Uncommitted)')
      BY DEF CommittedOwners
    <3>2. Traded({}, {}, {}, {})
      BY DEF Traded
    <3>3. /\ Owners(L1, S1, {}, CallOf(t, Uncommitted)) \subseteq Owners(live, FreeInSmall, {}, Calls(Uncommitted))
          /\ Owners(live', FreeInSmall', {}, Calls(Uncommitted)')
               = (Owners(live, FreeInSmall, {}, Calls(Uncommitted)) \ Owners(L1, S1, {}, CallOf(t, Uncommitted)))
                 \cup Owners(L2, S2, {}, CallOf(t, Uncommitted)')
      BY <1>2, <2>1, <3>2, OwnersTraded
    <3> QED BY <3>1, <3>3 DEF CommittedOwners
  <2>3. OwnersCover(X) = OwnersCover(Y)
    OBVIOUS
  <2> HIDE DEF X, Y
  <2> QED BY <2>2, <2>3, Swapped
<1>6. OwnersCover(CountedOwners') = OwnersCover(CountedOwners)
  <2> DEFINE X == Owners(L1, S1, {}, CallOf(t, Uncounted))
             Y == Owners(L2, S2, {}, CallOf(t, Uncounted)')
  <2>1. Traded(Calls(Uncounted), CallOf(t, Uncounted), CallOf(t, Uncounted)', Calls(Uncounted)') /\ Calls(Uncounted) \in Pairs
    BY <1>1, <1>2
  <2>2. X \subseteq CountedOwners /\ CountedOwners' = (CountedOwners \ X) \cup Y
    <3>1. CountedOwners' = Owners(live', FreeInSmall', {}, Calls(Uncounted)')
      BY DEF CountedOwners
    <3>2. Traded({}, {}, {}, {})
      BY DEF Traded
    <3>3. /\ Owners(L1, S1, {}, CallOf(t, Uncounted)) \subseteq Owners(live, FreeInSmall, {}, Calls(Uncounted))
          /\ Owners(live', FreeInSmall', {}, Calls(Uncounted)')
               = (Owners(live, FreeInSmall, {}, Calls(Uncounted)) \ Owners(L1, S1, {}, CallOf(t, Uncounted)))
                 \cup Owners(L2, S2, {}, CallOf(t, Uncounted)')
      BY <1>2, <2>1, <3>2, OwnersTraded
    <3> QED BY <3>1, <3>3 DEF CountedOwners
  <2>3. OwnersCover(X) = OwnersCover(Y)
    OBVIOUS
  <2> HIDE DEF X, Y
  <2> QED BY <2>2, <2>3, Swapped
<1> QED BY <1>4, <1>5, <1>6 DEF MemoryKept

-----------------------------------------------------------------------------
(* Calls that take a step of the pipeline without a change of owners.       *)
LEMMA CallsSame ==
  ASSUME NEW Hidden, \A t \in Threads : CallOf(t, Hidden)' = CallOf(t, Hidden)
  PROVE  Calls(Hidden)' = Calls(Hidden)
BY DEF Calls

(* A step in which a call moves between two layers and keeps its block     *)
(* keeps the invariant.                                                    *)
LEMMA PassesOn ==
  ASSUME Base, NEW t \in Threads, NEW s, pc' = [pc EXCEPT ![t] = s], ptr[t] # nullptr,
         \/ pc[t] \in AllocSteps /\ s \in AllocSteps \ {"lock_alloc"}
         \/ pc[t] \in FreeSteps /\ s \in FreeSteps,
         UNCHANGED <<mapped, registered, large, small, live, want, ptr>>, writable' \subseteq mapped
  PROVE  /\ Base' /\ AllOwners' = AllOwners
         /\ pc'[t] = s /\ \A u \in Threads \ {t} : pc'[u] = pc[u]
<1> USE DEF Base
<1>1. pc'[t] = s /\ \A u \in Threads \ {t} : pc'[u] = pc[u]
  BY DEF Shapes
<1>2. Shapes'
  <2>1. s \in Steps
    BY DEF Steps, AllocSteps, FreeSteps
  <2> QED BY <2>1 DEF Shapes
<1>3. Control'
  <2>1. ASSUME NEW u \in Threads
        PROVE  /\ pc'[u] \in {"idle", "exited", "lock_alloc"} => ptr[u] = nullptr
               /\ pc'[u] \in AllocSteps => want[u] \in Sizes
               /\ pc'[u] \in (AllocSteps \cup FreeSteps) \ {"lock_alloc", "return"} => ptr[u] # nullptr
               /\ pc'[u] \in FreeSteps => want[u] >= PageBits
               /\ ptr[u] # nullptr => Aligned(ptr[u], BlockBits(want[u]))
    <3>1. CASE u = t
      BY <1>1, <3>1 DEF Control, AllocSteps, FreeSteps
    <3>2. CASE u # t
      BY <1>1, <3>2 DEF Control
    <3> QED BY <3>1, <3>2
  <2> QED BY <2>1 DEF Control, BlockBits
<1>4. Placed'
  BY DEF Placed, FreeInLarge, SmallBlocks
<1>5. Exhausted'
  <2>1. ASSUME NEW u \in Threads, pc'[u] \in AllocSteps PROVE pc[u] \in AllocSteps
    BY <1>1, <2>1 DEF AllocSteps, FreeSteps
  <2> QED BY <2>1 DEF Exhausted
<1>6. AllOwners' = AllOwners
  <2>1. FreeInSmall' = FreeInSmall /\ FreeInLarge' = FreeInLarge
    BY DEF FreeInSmall, FreeInLarge, SmallBlocks
  <2>2. \A u \in Threads : CallOf(u, {})' = CallOf(u, {})
    BY DEF CallOf, CallBlock
  <2>3. Calls({})' = Calls({})
    BY <2>2, CallsSame
  <2> QED BY <2>1, <2>3 DEF AllOwners
<1>7. Memory'
  BY <1>6 DEF Memory
<1> QED BY <1>1, <1>2, <1>3, <1>4, <1>5, <1>6, <1>7

(* The block of a call is a block of its own.                               *)
Above(Hidden) == Owners(live, FreeInSmall, {}, Calls(Hidden))

(* A call that has a block is its owner.                                   *)
LEMMA CallIsOwner ==
  ASSUME NEW t \in Threads, ptr[t] # nullptr
  PROVE  <<"call", t, CallBlock(t)>> \in AllOwners
<1>1. <<t, CallBlock(t)>> \in Calls({}) /\ <<t, CallBlock(t)>>[1] = t /\ <<t, CallBlock(t)>>[2] = CallBlock(t)
  BY DEF Calls, CallOf, Of
<1> QED BY <1>1 DEF AllOwners, Owners

(* And shares no address with callers, small trees or other calls.         *)
LEMMA CallApart ==
  ASSUME OwnersApart(AllOwners), NEW t \in Threads, ptr[t] # nullptr,
         NEW C \in SUBSET Calls({}), \A c \in C : c[1] # t
  PROVE  BlockSpan(CallBlock(t)) \cap OwnersCover(Owners(live, FreeInSmall, {}, C)) = {}
<1> DEFINE mine == <<"call", t, CallBlock(t)>>
           above == Owners(live, FreeInSmall, {}, C)
<1>1. mine \in AllOwners /\ OwnedSpan(mine) = BlockSpan(CallBlock(t))
  BY CallIsOwner, OwnerSpans
<1>2. ASSUME NEW own \in above PROVE own \in AllOwners /\ own # mine
  <2>1. own \in AllOwners
    BY OwnersMember DEF AllOwners
  <2>2. own[1] = "call" => \E c \in C : own = <<"call", c[1], c[2]>>
    BY OwnersMember
  <2>3. mine[1] = "call" /\ mine[2] = t
    OBVIOUS
  <2>4. ASSUME own = mine PROVE FALSE
    <3>1. PICK c \in C : own = <<"call", c[1], c[2]>>
      BY <2>2, <2>3, <2>4
    <3>2. own[2] = c[1]
      BY <3>1
    <3> HIDE DEF mine
    <3> QED BY <2>3, <2>4, <3>2
  <2> QED BY <2>1, <2>4
<1> HIDE DEF mine, above
<1>3. \A own \in above : OwnedSpan(own) \cap OwnedSpan(mine) = {}
  BY <1>1, <1>2 DEF OwnersApart
<1>4. BlockSpan(CallBlock(t)) \cap OwnersCover(above) = {}
  BY <1>1, <1>3 DEF OwnersCover
<1> QED BY <1>4 DEF above

(* A call that is below a layer shares no address with the memory above    *)
(* that layer.                                                             *)
LEMMA HiddenApart ==
  ASSUME OwnersApart(AllOwners), NEW Hidden, NEW t \in Threads, ptr[t] # nullptr, pc[t] \in Hidden
  PROVE  BlockSpan(CallBlock(t)) \cap OwnersCover(Above(Hidden)) = {}
<1>1. ASSUME NEW c \in Calls(Hidden) PROVE c[1] # t /\ c \in Calls({})
  <2>1. PICK u \in Threads : c \in CallOf(u, Hidden)
    BY DEF Calls
  <2>2. ptr[u] # nullptr /\ pc[u] \notin Hidden /\ c = <<u, CallBlock(u)>>
    BY <2>1 DEF CallOf, Of
  <2>3. c[1] = u /\ u # t
    BY <2>2
  <2>4. c \in CallOf(u, {})
    BY <2>2 DEF CallOf, Of
  <2> QED BY <2>3, <2>4 DEF Calls
<1> QED BY <1>1, CallApart DEF Above

(* ... and so is the block that the step hides.                             *)
LEMMA HidingApart ==
  ASSUME OwnersApart(AllOwners), NEW Hidden, NEW t \in Threads, ptr[t] # nullptr,
         UNCHANGED <<small, live, want, ptr>>, \A u \in Threads \ {t} : pc'[u] = pc[u],
         pc'[t] \in Hidden
  PROVE  BlockSpan(CallBlock(t)) \cap OwnersCover(Above(Hidden)') = {}
<1>1. ASSUME NEW c \in Calls(Hidden)' PROVE c[1] # t /\ c \in Calls({})
  <2>1. PICK u \in Threads : c \in CallOf(u, Hidden)'
    BY DEF Calls
  <2>2. ptr[u] # nullptr /\ pc'[u] \notin Hidden /\ c = <<u, CallBlock(u)>>
    BY <2>1 DEF CallOf, CallBlock, Of
  <2>3. c[1] = u /\ u # t
    BY <2>2
  <2>4. c \in CallOf(u, {})
    BY <2>2 DEF CallOf, Of
  <2> QED BY <2>3, <2>4 DEF Calls
<1>2. Above(Hidden)' = Owners(live, FreeInSmall, {}, Calls(Hidden)')
  BY DEF Above, FreeInSmall, SmallBlocks
<1> QED BY <1>1, <1>2, CallApart

(* A step of the call shows its block, or hides it.                         *)
LEMMA CallShown ==
  ASSUME NEW t \in Threads, NEW Hidden, ptr[t] # nullptr,
         UNCHANGED <<small, live, want, ptr>>, \A u \in Threads \ {t} : pc'[u] = pc[u]
  PROVE  /\ (pc[t] \in Hidden <=> pc'[t] \in Hidden) => Above(Hidden)' = Above(Hidden)
         /\ pc[t] \in Hidden /\ pc'[t] \notin Hidden
              => OwnersCover(Above(Hidden)') = OwnersCover(Above(Hidden)) \cup BlockSpan(CallBlock(t))
         /\ pc[t] \notin Hidden /\ pc'[t] \in Hidden
              => OwnersCover(Above(Hidden)) = OwnersCover(Above(Hidden)') \cup BlockSpan(CallBlock(t))
<1>1. FreeInSmall' = FreeInSmall
  BY DEF FreeInSmall, SmallBlocks
<1>2. \A u \in Threads \ {t} : CallOf(u, Hidden)' = CallOf(u, Hidden)
  BY DEF CallOf, CallBlock
<1>3. CallBlock(t)' = CallBlock(t) /\ ptr'[t] = ptr[t]
  BY DEF CallBlock
<1>4. Calls(Hidden) = UNION {CallOf(u, Hidden) : u \in Threads}
  BY DEF Calls
<1>5. Calls(Hidden)' = UNION {CallOf(u, Hidden)' : u \in Threads}
  BY DEF Calls
<1>6. Above(Hidden)' = Owners(live, FreeInSmall, {}, Calls(Hidden)')
  BY <1>1 DEF Above
<1>7. ASSUME NEW C, NEW D, D = C \cup Of(t, {CallBlock(t)})
      PROVE  OwnersCover(Owners(live, FreeInSmall, {}, D))
               = OwnersCover(Owners(live, FreeInSmall, {}, C)) \cup BlockSpan(CallBlock(t))
  <2>1. PICK b : b = CallBlock(t)
    OBVIOUS
  <2>2. Owners(live, FreeInSmall, {}, D)
          = Owners(live, FreeInSmall, {}, C) \cup Owners({}, {}, {}, Of(t, {b}))
    BY <1>7, <2>1 DEF Owners
  <2>3. OwnersCover(Owners({}, {}, {}, Of(t, {b}))) = BlockSpan(b)
    BY OwnersOfOne
  <2>4. \A X, Y : OwnersCover(X \cup Y) = OwnersCover(X) \cup OwnersCover(Y)
    BY DEF OwnersCover
  <2> QED BY <2>1, <2>2, <2>3, <2>4
<1>8. CASE pc[t] \in Hidden <=> pc'[t] \in Hidden
  <2>1. CallOf(t, Hidden)' = CallOf(t, Hidden)
    BY <1>3, <1>8 DEF CallOf
  <2>2. Calls(Hidden)' = Calls(Hidden)
    BY <1>2, <2>1, CallsSame
  <2> QED BY <1>6, <1>8, <2>2 DEF Above
<1>9. CASE pc[t] \in Hidden /\ pc'[t] \notin Hidden
  <2>1. CallOf(t, Hidden) = {} /\ CallOf(t, Hidden)' = Of(t, {CallBlock(t)})
    BY <1>3, <1>9 DEF CallOf
  <2>2. Calls(Hidden)' = Calls(Hidden) \cup Of(t, {CallBlock(t)})
    BY <1>2, <1>4, <1>5, <2>1
  <2> QED BY <1>6, <1>7, <1>9, <2>2 DEF Above
<1>10. CASE pc[t] \notin Hidden /\ pc'[t] \in Hidden
  <2>1. CallOf(t, Hidden)' = {} /\ CallOf(t, Hidden) = Of(t, {CallBlock(t)})
    BY <1>3, <1>10 DEF CallOf
  <2>2. Calls(Hidden) = Calls(Hidden)' \cup Of(t, {CallBlock(t)})
    BY <1>2, <1>4, <1>5, <2>1
  <2> QED BY <1>6, <1>7, <1>10, <2>2 DEF Above
<1> QED BY <1>8, <1>9, <1>10

-----------------------------------------------------------------------------
(* Steps that trade blocks.                                                *)
LEMMA NoCall ==
  ASSUME NEW t, ptr[t] = nullptr
  PROVE  \A Hidden : CallOf(t, Hidden) = {}
BY DEF CallOf

(* Memory depends on nothing but the owners and what is mapped.            *)
LEMMA MemoryStays ==
  ASSUME Memory, MemoryKept, mapped' = mapped
  PROVE  Memory'
BY DEF Memory, MemoryKept, AddressesOf

(* The thread's own tree stays in order when one tree changes.              *)
LEMMA SmallPlaced ==
  ASSUME Shapes, Placed, NEW t \in Threads, NEW x \in [Small!BlockBits -> SUBSET Nat],
         small' = [small EXCEPT ![t] = x], AllAligned(Small!FreeBlocks(x)), Merged(x)
  PROVE  /\ small' \in [Threads -> [Small!BlockBits -> SUBSET Nat]]
         /\ \A u \in Threads : AllAligned(SmallBlocks(u)') /\ Merged(small'[u])
         /\ small'[t] = x /\ \A u \in Threads \ {t} : small'[u] = small[u]
<1>1. small'[t] = x /\ \A u \in Threads \ {t} : small'[u] = small[u]
  BY DEF Shapes
<1>2. small' \in [Threads -> [Small!BlockBits -> SUBSET Nat]]
  BY DEF Shapes
<1>3. ASSUME NEW u \in Threads PROVE AllAligned(SmallBlocks(u)') /\ Merged(small'[u])
  <2>1. CASE u = t
    BY <1>1, <2>1 DEF SmallBlocks
  <2>2. CASE u # t
    BY <1>1, <2>2 DEF SmallBlocks, Placed
  <2> QED BY <2>1, <2>2
<1> QED BY <1>1, <1>2, <1>3

(* An allocation from the thread's own tree keeps the invariant and the    *)
(* memory above each layer.                                                *)
LEMMA SmallAllocateKeeps ==
  ASSUME Base, NEW t \in Threads, NEW bits \in Sizes, SmallAllocate(t, bits)
  PROVE  Base' /\ MemoryKept
<1> USE DEF Base
<1>1. /\ bits \in Small!BlockBits /\ pc[t] = "idle" /\ ptr[t] = nullptr
      /\ Small!Donors(small[t], bits) # {}
      /\ small[t] \in [Small!BlockBits -> SUBSET Nat]
      /\ AllAligned(Small!FreeBlocks(small[t])) /\ Merged(small[t])
  BY SizesAre, SmallSame DEF SmallAllocate, Control, Shapes, Placed, SmallBlocks
<1> DEFINE res == Small!allocate_block(small[t], bits)
<1>2. /\ res.trees \in [Small!BlockBits -> SUBSET Nat] /\ res.node \in Nat
      /\ \E from, rest :
           /\ <<res.node, from>> \in Small!FreeBlocks(small[t])
           /\ Splits(<<res.node, from>>, <<res.node, bits>>, rest)
           /\ rest \subseteq Nat \X Small!BlockBits
           /\ Small!FreeBlocks(res.trees)
                = (Small!FreeBlocks(small[t]) \ {<<res.node, from>>}) \cup rest
  BY <1>1, SmallAllocateSplits
<1>3. Merged(res.trees)
  BY <1>1, AllocateKeepsMerged
<1>4. /\ small' = [small EXCEPT ![t] = res.trees]
      /\ live' = live \cup {<<res.node, bits>>}
      /\ UNCHANGED <<mapped, writable, registered, large, pc, want, ptr>>
  BY DEF SmallAllocate, os, calls
<1> PICK node \in Nat, x \in [Small!BlockBits -> SUBSET Nat] : node = res.node /\ x = res.trees
  BY <1>2
<1> HIDE DEF res
<1>5. PICK from, rest :
        /\ <<node, from>> \in SmallBlocks(t)
        /\ Splits(<<node, from>>, <<node, bits>>, rest)
        /\ rest \subseteq Nat \X Small!BlockBits
        /\ Small!FreeBlocks(x) = (SmallBlocks(t) \ {<<node, from>>}) \cup rest
  BY <1>2 DEF SmallBlocks
<1>6. PICK old, piece : old = <<node, from>> /\ piece = <<node, bits>>
  OBVIOUS
<1>7. Traded(FreeInSmall, Of(t, {old}), Of(t, rest), FreeInSmall')
  BY <1>4, <1>5, <1>6, SmallChanges
<1>8. MemoryKept
  <2>1. \A H : CallOf(t, H) = {} /\ CallOf(t, H)' = {}
    BY <1>1, <1>4, NoCall DEF CallOf
  <2>2. /\ OwnersCover(Owners({}, Of(t, {old}), {}, {})) = BlockSpan(old)
        /\ OwnersCover(Owners({piece}, Of(t, rest), {}, {})) = BlockSpan(old)
        /\ OwnersApart(Owners({piece}, Of(t, rest), {}, {}))
    BY <1>5, <1>6, OwnersOfOne, OwnersOfPieces
  <2>3. Traded(live, {}, {piece}, live')
    BY <1>4, <1>6 DEF Traded
  <2>4. Traded(FreeInLarge, {}, {}, FreeInLarge')
    BY <1>4 DEF Traded, FreeInLarge
  <2>5. \A u \in Threads \ {t} : pc'[u] = pc[u] /\ ptr'[u] = ptr[u] /\ want'[u] = want[u]
    BY <1>4
  <2> QED BY <1>7, <2>1, <2>2, <2>3, <2>4, <2>5, TradeKeeps
<1>9. Aligned(node, bits) /\ AllAligned(rest)
  BY <1>5 DEF Splits, AllAligned
<1>10. /\ small' \in [Threads -> [Small!BlockBits -> SUBSET Nat]]
       /\ \A u \in Threads : AllAligned(SmallBlocks(u)') /\ Merged(small'[u])
       /\ \A u \in Threads \ {t} : small'[u] = small[u]
  <2>1. AllAligned(Small!FreeBlocks(x)) /\ Merged(x)
    BY <1>1, <1>3, <1>5, <1>9 DEF AllAligned, SmallBlocks
  <2> QED BY <1>4, <2>1, SmallPlaced
<1>11. Shapes'
  <2>1. live' \subseteq Nat \X Sizes
    BY <1>4 DEF Shapes
  <2> QED BY <1>4, <1>10, <2>1 DEF Shapes
<1>12. Control'
  BY <1>4 DEF Control, BlockBits
<1>13. Placed'
  <2>1. AllAligned(live')
    BY <1>4, <1>9 DEF Placed, AllAligned
  <2>2. AllAligned(FreeInLarge')
    BY <1>4 DEF Placed, FreeInLarge
  <2> QED BY <1>10, <2>1, <2>2 DEF Placed
<1>14. Exhausted'
  <2>1. ASSUME NEW u \in Threads, pc'[u] \in AllocSteps PROVE u # t
    BY <1>1, <1>4, <2>1 DEF AllocSteps
  <2> QED BY <1>4, <1>10, <2>1 DEF Exhausted
<1>15. Memory'
  BY <1>4, <1>8, MemoryStays
<1> QED BY <1>8, <1>11, <1>12, <1>13, <1>14, <1>15

(* What the other threads have stays in order.                              *)
LEMMA OthersKeep ==
  ASSUME Base, NEW t \in Threads,
         \A u \in Threads \ {t} : pc'[u] = pc[u] /\ ptr'[u] = ptr[u] /\ want'[u] = want[u],
         \A u \in Threads \ {t} : small'[u] = small[u]
  PROVE  /\ \A u \in Threads \ {t} :
              /\ pc'[u] \in {"idle", "exited", "lock_alloc"} => ptr'[u] = nullptr
              /\ pc'[u] \in AllocSteps => want'[u] \in Sizes
              /\ pc'[u] \in (AllocSteps \cup FreeSteps) \ {"lock_alloc", "return"} => ptr'[u] # nullptr
              /\ pc'[u] \in FreeSteps => want'[u] >= PageBits
              /\ ptr'[u] # nullptr => Aligned(ptr'[u], BlockBits(want'[u]))
         /\ \A u \in Threads \ {t} :
              pc'[u] \in AllocSteps /\ want'[u] < PageBits => Small!Donors(small'[u], want'[u]) = {}
BY DEF Base, Control, Exhausted

(* So it is enough that the thread's own call is.                           *)
OwnInOrder(t) ==
  /\ pc[t] \in {"idle", "exited", "lock_alloc"} => ptr[t] = nullptr
  /\ pc[t] \in AllocSteps => want[t] \in Sizes
  /\ pc[t] \in (AllocSteps \cup FreeSteps) \ {"lock_alloc", "return"} => ptr[t] # nullptr
  /\ pc[t] \in FreeSteps => want[t] >= PageBits
  /\ ptr[t] # nullptr => Aligned(ptr[t], BlockBits(want[t]))
  /\ pc[t] \in AllocSteps /\ want[t] < PageBits => Small!Donors(small[t], want[t]) = {}

(* Where one thread steps, its own locals and tree decide whether Control  *)
(* and Exhausted are kept.                                                 *)
LEMMA OwnIsEnough ==
  ASSUME Base, NEW t \in Threads,
         \A u \in Threads \ {t} : pc'[u] = pc[u] /\ ptr'[u] = ptr[u] /\ want'[u] = want[u],
         \A u \in Threads \ {t} : small'[u] = small[u],
         OwnInOrder(t)'
  PROVE  Control' /\ Exhausted'
<1>1. ASSUME NEW u \in Threads PROVE OwnInOrder(u)'
  <2>1. CASE u = t
    BY <2>1
  <2>2. CASE u # t
    BY <2>2, OthersKeep DEF OwnInOrder
  <2> QED BY <2>1, <2>2
<1> QED BY <1>1 DEF OwnInOrder, Control, Exhausted

(* allocate_block of the large buddy, under the lock, keeps them.          *)
LEMMA LargeAllocateKeeps ==
  ASSUME Base, NEW t \in Threads, LargeAllocate(t)
  PROVE  Base' /\ MemoryKept
<1> USE DEF Base
<1> PICK index : index = BlockBits(want[t])
  OBVIOUS
<1>1. /\ want[t] \in Sizes /\ want[t] \in 0 .. AddressBits - 1 /\ pc[t] = "lock_alloc" /\ ptr[t] = nullptr
      /\ index \in Large!BlockBits
      /\ Large!Donors(large, index) # {}
      /\ large \in [Large!BlockBits -> SUBSET Nat]
      /\ AllAligned(Large!FreeBlocks(large))
  BY BlockBitsAre DEF LargeAllocate, Control, Shapes, Placed, FreeInLarge, AllocSteps
<1> DEFINE res == Large!allocate_block(large, index)
<1>2. /\ res.trees \in [Large!BlockBits -> SUBSET Nat] /\ res.node \in Nat
      /\ \E from, rest :
           /\ <<res.node, from>> \in Large!FreeBlocks(large)
           /\ Splits(<<res.node, from>>, <<res.node, index>>, rest)
           /\ rest \subseteq Nat \X Large!BlockBits
           /\ Large!FreeBlocks(res.trees)
                = (Large!FreeBlocks(large) \ {<<res.node, from>>}) \cup rest
  BY <1>1, LargeAllocateSplits
<1>3. /\ large' = res.trees
      /\ ptr' = [ptr EXCEPT ![t] = res.node]
      /\ pc' = [pc EXCEPT ![t] = "commit"]
      /\ UNCHANGED <<mapped, writable, registered, small, live, want>>
  BY DEF LargeAllocate, os
<1> PICK node \in Nat, x \in [Large!BlockBits -> SUBSET Nat] : node = res.node /\ x = res.trees
  BY <1>2
<1> HIDE DEF res
<1>4. PICK from, rest :
        /\ <<node, from>> \in FreeInLarge
        /\ Splits(<<node, from>>, <<node, index>>, rest)
        /\ FreeInLarge' = (FreeInLarge \ {<<node, from>>}) \cup rest
  BY <1>2, <1>3 DEF FreeInLarge
<1>5. PICK old, piece : old = <<node, from>> /\ piece = <<node, index>>
  OBVIOUS
<1>6. /\ ptr'[t] = node /\ pc'[t] = "commit" /\ want'[t] = want[t]
      /\ \A u \in Threads \ {t} : pc'[u] = pc[u] /\ ptr'[u] = ptr[u] /\ want'[u] = want[u]
  BY <1>3 DEF Shapes
<1>7. node # nullptr
  <2>1. <<"large", old>> \in AllOwners
    BY <1>4, <1>5 DEF AllOwners, Owners
  <2>2. node \in BlockSpan(old)
    <3>1. from \in Nat
      BY <1>4, PairsOfThreads
    <3> QED BY <1>5, <3>1, SpanIs DEF BlockSpan
  <2>3. node \in OwnersCover(AllOwners)
    BY <2>1, <2>2, OwnerSpans DEF OwnersCover
  <2>4. node \div PageSize \in MmapPages
    BY <2>3 DEF Memory, AddressesOf, Shapes
  <2> QED BY <2>4, MmapPagesAre DEF nullptr
<1>8. MemoryKept
  <2>1. \A H : CallOf(t, H) = {}
    BY <1>1, NoCall
  <2>2. CallOf(t, {})' = Of(t, {piece}) /\ CallOf(t, Uncommitted)' = {} /\ CallOf(t, Uncounted)' = {}
    BY <1>5, <1>6, <1>7 DEF CallOf, CallBlock, BlockBits, Uncommitted, Uncounted
  <2>3. /\ OwnersCover(Owners({}, {}, {old}, {})) = BlockSpan(old)
        /\ OwnersCover(Owners({}, {}, rest, Of(t, {piece}))) = BlockSpan(old)
        /\ OwnersApart(Owners({}, {}, rest, Of(t, {piece})))
    BY <1>4, <1>5, OwnersOfOne, OwnersOfPieces
  <2>4. Traded(live, {}, {}, live')
    BY <1>3 DEF Traded
  <2>5. Traded(FreeInSmall, {}, {}, FreeInSmall')
    BY <1>3 DEF Traded, FreeInSmall, SmallBlocks
  <2>6. Traded(FreeInLarge, {old}, rest, FreeInLarge')
    BY <1>4, <1>5 DEF Traded
  <2> QED BY <1>6, <2>1, <2>2, <2>3, <2>4, <2>5, <2>6, TradeKeeps
<1>9. Aligned(node, index) /\ AllAligned(rest)
  BY <1>4 DEF Splits, AllAligned
<1>10. Shapes'
  BY <1>3 DEF Shapes, Steps, AllocSteps
<1>11. OwnInOrder(t)'
  <2>1. pc[t] \in AllocSteps
    BY <1>1 DEF AllocSteps
  <2>2. small'[t] = small[t] /\ BlockBits(want[t]) = index
    BY <1>3
  <2> QED BY <1>1, <1>6, <1>7, <1>9, <2>1, <2>2 DEF OwnInOrder, AllocSteps, FreeSteps, Exhausted
<1>12. Placed'
  <2>1. AllAligned(FreeInLarge')
    BY <1>4, <1>9 DEF Placed, AllAligned
  <2> QED BY <1>3, <2>1 DEF Placed, SmallBlocks
<1>13. Memory'
  BY <1>3, <1>8, MemoryStays
<1>14. Control' /\ Exhausted'
  BY <1>3, <1>6, <1>11, OwnIsEnough
<1> QED BY <1>8, <1>10, <1>12, <1>13, <1>14

(* The addresses of a run of whole pages.                                   *)
LEMMA AddressesOfBlock ==
  ASSUME NEW addr \in Nat, NEW bits \in Nat, PageBits <= bits, Aligned(addr, bits)
  PROVE  AddressesOf(PagesOf(addr, bits)) = BlockSpan(<<addr, bits>>)
<1>1. BlockSpan(<<addr, bits>>) = Span(addr, bits)
  BY DEF BlockSpan
<1>2. Span(addr, bits) \subseteq Nat
  BY SpanIs
<1>3. \A a \in Span(addr, bits) : a \div PageSize \in PagesOf(addr, bits)
  BY PageOfAddress
<1>4. \A a \in Nat : a \div PageSize \in PagesOf(addr, bits) => a \in Span(addr, bits)
  BY WholePages
<1> QED BY <1>1, <1>2, <1>3, <1>4 DEF AddressesOf

(* Addresses of unions and differences of sets of pages.                   *)
LEMMA AddressesTogether ==
  /\ \A P, Q : AddressesOf(P \cup Q) = AddressesOf(P) \cup AddressesOf(Q)
  /\ \A P, Q : AddressesOf(P \ Q) = AddressesOf(P) \ AddressesOf(Q)
  /\ \A P, Q : P \cap Q = {} => AddressesOf(P) \cap AddressesOf(Q) = {}
  /\ \A P, Q : P \subseteq Q => AddressesOf(P) \subseteq AddressesOf(Q)
BY DEF AddressesOf

(* A refill keeps the invariant: the addresses it adds are newly mapped,   *)
(* so nobody's.                                                            *)
LEMMA LargeRefillKeeps ==
  ASSUME Base, FailuresUnmapNothing, NEW t \in Threads, LargeRefill(t)
  PROVE  /\ Base'
         /\ Above(Uncommitted)' = Above(Uncommitted) /\ Above(Uncounted)' = Above(Uncounted)
         /\ writable' = writable
         /\ ~MprotectFails /\ mapped \subseteq registered => mapped' \subseteq registered'
<1> USE DEF Base
<1> PICK index : index = BlockBits(want[t])
  OBVIOUS
<1> PICK bits : bits = RefillSizeBits(index)
  OBVIOUS
<1>1. /\ want[t] \in Sizes /\ want[t] \in 0 .. AddressBits - 1 /\ pc[t] = "lock_alloc" /\ ptr[t] = nullptr
      /\ index \in Large!BlockBits /\ index \in Nat /\ PageBits <= index
      /\ bits \in Nat /\ index <= bits /\ bits < AddressBits /\ PageBits <= bits /\ bits <= AddressBits
      /\ large \in [Large!BlockBits -> SUBSET Nat]
  <2>1. want[t] \in Sizes /\ want[t] \in 0 .. AddressBits - 1 /\ pc[t] = "lock_alloc" /\ ptr[t] = nullptr
    BY DEF LargeRefill, Control, Shapes, AllocSteps
  <2>2. /\ index \in Large!BlockBits /\ index \in Nat /\ PageBits <= index
        /\ bits \in Nat /\ index <= bits /\ bits < AddressBits
    BY <2>1, BlockBitsAre
  <2> QED BY <2>1, <2>2, SizesAre DEF Shapes
<1>2. PICK res \in Reservations(2 ^ bits) :
        /\ mapped' = res.mapped
        /\ writable' = writable \cap res.mapped
        /\ ptr' = [ptr EXCEPT ![t] = res.ptr]
        /\ \/ /\ res.ptr # nullptr
              /\ \/ registered' = Register(res.ptr, bits)
                 \/ MprotectFails /\ UNCHANGED registered
              /\ large' = Large!divide_block(large, res.ptr, bits, index)
              /\ pc' = [pc EXCEPT ![t] = "commit"]
           \/ /\ res.ptr = nullptr
              /\ pc' = [pc EXCEPT ![t] = "return"]
              /\ UNCHANGED <<registered, large>>
  BY DEF LargeRefill
<1>3. UNCHANGED <<small, live, want>>
  BY DEF LargeRefill
<1>4. \/ res.ptr = nullptr /\ res.mapped = mapped
      \/ /\ res.ptr \in Nat \ {0} /\ Aligned(res.ptr, bits)
         /\ PagesOf(res.ptr, bits) \subseteq MmapPages \ mapped
         /\ res.mapped = mapped \cup PagesOf(res.ptr, bits)
  BY <1>1, Reserved DEF Shapes
<1> PICK p, pages : p = res.ptr /\ pages = res.mapped
  OBVIOUS
<1>5. /\ ptr'[t] = p /\ want'[t] = want[t] /\ pc'[t] \in {"commit", "return"}
      /\ pc'[t] = "commit" => p # nullptr
      /\ pc'[t] = "return" => p = nullptr
      /\ \A u \in Threads \ {t} : pc'[u] = pc[u] /\ ptr'[u] = ptr[u] /\ want'[u] = want[u]
  BY <1>2, <1>3 DEF Shapes
<1>6. writable' = writable /\ mapped \subseteq mapped'
  BY <1>2, <1>4 DEF Shapes
<1>7. ASSUME NEW H \in {Uncommitted, Uncounted} PROVE Above(H)' = Above(H)
  <2>1. CallOf(t, H) = {} /\ CallOf(t, H)' = {}
    BY <1>1, <1>5 DEF CallOf, Uncommitted, Uncounted
  <2>2. \A u \in Threads \ {t} : CallOf(u, H)' = CallOf(u, H)
    BY <1>5 DEF CallOf, CallBlock
  <2>3. Calls(H)' = Calls(H)
    BY <2>1, <2>2, CallsSame
  <2>4. FreeInSmall' = FreeInSmall
    BY <1>3 DEF FreeInSmall, SmallBlocks
  <2> QED BY <1>3, <2>3, <2>4 DEF Above
<1>8. OwnInOrder(t)'
  <2>1. pc[t] \in AllocSteps /\ small'[t] = small[t]
    BY <1>1, <1>3 DEF AllocSteps
  <2>2. p # nullptr => Aligned(p, index)
    <3>1. CASE p # nullptr
      <4>1. p \in Nat /\ Aligned(p, bits)
        BY <1>4, <3>1
      <4>2. PICK rest : Splits(<<p, bits>>, <<p, index>>, rest)
        BY <1>1, <4>1, LargeDivideSplits
      <4> QED BY <4>2 DEF Splits, AllAligned
    <3> QED BY <3>1
  <2>3. pc'[t] = "commit" => p # nullptr
    BY <1>5
  <2> QED BY <1>1, <1>5, <2>1, <2>2, <2>3 DEF OwnInOrder, AllocSteps, FreeSteps, Exhausted
<1>9. Control' /\ Exhausted'
  BY <1>3, <1>5, <1>8, OwnIsEnough
<1>10. CASE p = nullptr
  <2>1. /\ mapped' = mapped /\ registered' = registered /\ large' = large
        /\ pc' = [pc EXCEPT ![t] = "return"] /\ ptr' = [ptr EXCEPT ![t] = nullptr]
    BY <1>2, <1>4, <1>10 DEF nullptr
  <2>2. Shapes'
    BY <1>3, <1>6, <2>1 DEF Shapes, Steps, AllocSteps, nullptr
  <2>3. Placed'
    BY <1>3, <2>1 DEF Placed, SmallBlocks, FreeInLarge
  <2>4. AllOwners' = AllOwners
    <3>1. CallOf(t, {}) = {} /\ CallOf(t, {})' = {}
      BY <1>1, <1>5, <1>10 DEF CallOf
    <3>2. \A u \in Threads \ {t} : CallOf(u, {})' = CallOf(u, {})
      BY <1>5 DEF CallOf, CallBlock
    <3>3. Calls({})' = Calls({})
      BY <3>1, <3>2, CallsSame
    <3>4. FreeInSmall' = FreeInSmall /\ FreeInLarge' = FreeInLarge
      BY <1>3, <2>1 DEF FreeInSmall, SmallBlocks, FreeInLarge
    <3> QED BY <1>3, <3>3, <3>4 DEF AllOwners
  <2>5. Memory'
    BY <2>1, <2>4 DEF Memory
  <2> QED BY <1>6, <1>7, <1>9, <2>1, <2>2, <2>3, <2>5
<1>11. CASE p # nullptr
  <2>1. /\ p \in Nat \ {0} /\ Aligned(p, bits)
        /\ PagesOf(p, bits) \subseteq MmapPages \ mapped
        /\ mapped' = mapped \cup PagesOf(p, bits)
    BY <1>2, <1>4, <1>11
  <2>2. /\ registered' = registered \cup PagesOf(p, bits) \/ (MprotectFails /\ registered' = registered)
        /\ large' = Large!divide_block(large, p, bits, index)
        /\ pc' = [pc EXCEPT ![t] = "commit"] /\ ptr' = [ptr EXCEPT ![t] = p]
    BY <1>2, <1>11 DEF Register
  <2>3. /\ large' \in [Large!BlockBits -> SUBSET Nat]
        /\ \E rest : /\ Splits(<<p, bits>>, <<p, index>>, rest)
                     /\ FreeInLarge' = FreeInLarge \cup rest
    BY <1>1, <2>1, <2>2, LargeDivideSplits DEF FreeInLarge
  <2>4. PICK rest : Splits(<<p, bits>>, <<p, index>>, rest) /\ FreeInLarge' = FreeInLarge \cup rest
    BY <2>3
  <2>5. Shapes'
    BY <1>3, <1>6, <2>1, <2>2, <2>3 DEF Shapes, Steps, AllocSteps
  <2>6. Placed'
    <3>1. AllAligned(FreeInLarge')
      BY <2>4 DEF Placed, AllAligned, Splits
    <3> QED BY <1>3, <3>1 DEF Placed, SmallBlocks
  <2>7. PICK old, piece : old = <<p, bits>> /\ piece = <<p, index>>
    OBVIOUS
  <2> DEFINE Y == Owners({}, {}, rest, Of(t, {piece}))
  <2>8. AllOwners' = AllOwners \cup Y
    <3>1. CallOf(t, {}) = {} /\ CallOf(t, {})' = Of(t, {piece})
      BY <1>1, <1>5, <1>11, <2>7 DEF CallOf, CallBlock, BlockBits
    <3>2. Traded(Calls({}), {}, Of(t, {piece}), Calls({})')
      BY <1>5, <3>1, CallsChange
    <3>3. Calls({})' = Calls({}) \cup Of(t, {piece})
      BY <3>2 DEF Traded
    <3>4. FreeInSmall' = FreeInSmall
      BY <1>3 DEF FreeInSmall, SmallBlocks
    <3>5. AllOwners' = Owners(live, FreeInSmall, FreeInLarge \cup rest, Calls({}) \cup Of(t, {piece}))
      BY <1>3, <2>4, <3>3, <3>4 DEF AllOwners
    <3> QED BY <3>5 DEF AllOwners, Owners
  <2>9. OwnersApart(Y) /\ OwnersCover(Y) = BlockSpan(old)
    <3>1. Splits(old, piece, rest)
      BY <2>4, <2>7
    <3> QED BY <3>1, OwnersOfPieces
  <2>10. /\ AddressesOf(PagesOf(p, bits)) = BlockSpan(old)
         /\ AddressesOf(mapped') = AddressesOf(mapped) \cup BlockSpan(old)
         /\ AddressesOf(mapped) \cap BlockSpan(old) = {}
    <3>1. AddressesOf(PagesOf(p, bits)) = BlockSpan(old)
      BY <1>1, <2>1, <2>7, AddressesOfBlock
    <3>2. mapped \cap PagesOf(p, bits) = {}
      BY <2>1
    <3> QED BY <2>1, <3>1, <3>2, AddressesTogether
  <2> HIDE DEF Y
  <2>11. Memory'
    <3>1. OwnersApart(AllOwners) /\ OwnersCover(AllOwners) \cap OwnersCover(Y) = {}
      BY <2>9, <2>10 DEF Memory
    <3>2. /\ OwnersApart(AllOwners \cup Y)
          /\ OwnersCover(AllOwners \cup Y) = OwnersCover(AllOwners) \cup OwnersCover(Y)
      BY <2>9, <3>1, Added
    <3>3. OwnersCover(AllOwners') = AddressesOf(mapped')
      BY <2>8, <2>9, <2>10, <3>2 DEF Memory
    <3>4. AddressesOf(mapped') = AddressesOf(mapped)'
      BY DEF AddressesOf
    <3>5. OwnersApart(AllOwners')
      BY <2>8, <3>2
    <3>6. OwnersApart(AllOwners') <=> OwnersApart(AllOwners)'
      OBVIOUS
    <3>7. OwnersCover(AllOwners') = OwnersCover(AllOwners)'
      OBVIOUS
    <3> QED BY <3>3, <3>4, <3>5, <3>6, <3>7 DEF Memory
  <2>12. ~MprotectFails /\ mapped \subseteq registered => mapped' \subseteq registered'
    BY <2>1, <2>2
  <2> QED BY <1>6, <1>7, <1>9, <2>5, <2>6, <2>11, <2>12
<1> QED BY <1>10, <1>11

(* The block that a call hands out or takes.                                *)
LEMMA ReleaseKeeps ==
  ASSUME Base, NEW t \in Threads, NEW blk \in live, Release(t, blk)
  PROVE  Base' /\ MemoryKept
<1> USE DEF Base
<1>1. /\ blk \in Nat \X Sizes /\ blk[1] \in Nat /\ blk[2] \in 0 .. AddressBits - 1
      /\ blk[2] >= PageBits /\ blk = <<blk[1], blk[2]>>
      /\ BlockBits(blk[2]) = blk[2] /\ Aligned(blk[1], blk[2])
      /\ pc[t] = "idle" /\ ptr[t] = nullptr
  <2>1. blk \in Nat \X Sizes /\ blk[2] >= PageBits /\ pc[t] = "idle" /\ ptr[t] = nullptr
    BY DEF Release, Shapes, Control
  <2>2. blk[1] \in Nat /\ blk[2] \in 0 .. AddressBits - 1 /\ blk = <<blk[1], blk[2]>>
    BY <2>1, SizesAre
  <2>3. BlockBits(blk[2]) = blk[2]
    BY <2>1, <2>2, BlockBitsAre
  <2>4. Aligned(blk[1], blk[2])
    BY DEF Placed, AllAligned
  <2> QED BY <2>1, <2>2, <2>3, <2>4
<1>2. /\ live' = live \ {blk}
      /\ pc' = [pc EXCEPT ![t] = "stats_sub"]
      /\ want' = [want EXCEPT ![t] = blk[2]]
      /\ ptr' = [ptr EXCEPT ![t] = blk[1]]
      /\ UNCHANGED <<mapped, writable, registered, large, small>>
  BY DEF Release, os
<1>3. /\ ptr'[t] = blk[1] /\ pc'[t] = "stats_sub" /\ want'[t] = blk[2]
      /\ \A u \in Threads \ {t} : pc'[u] = pc[u] /\ ptr'[u] = ptr[u] /\ want'[u] = want[u]
  BY <1>2 DEF Shapes
<1>4. blk[1] # nullptr
  <2>1. <<"caller", blk>> \in AllOwners
    BY DEF AllOwners, Owners
  <2>2. blk[1] \in BlockSpan(blk)
    BY <1>1, SizesAre, SpanIs DEF BlockSpan
  <2>3. blk[1] \in OwnersCover(AllOwners)
    BY <2>1, <2>2, OwnerSpans DEF OwnersCover
  <2>4. blk[1] \div PageSize \in MmapPages
    BY <2>3 DEF Memory, AddressesOf, Shapes
  <2> QED BY <1>1, <2>4, MmapPagesAre DEF nullptr
<1>5. MemoryKept
  <2>1. \A H : CallOf(t, H) = {}
    BY <1>1, NoCall
  <2>2. CallBlock(t)' = blk
    BY <1>1, <1>3 DEF CallBlock, BlockBits
  <2>3. /\ CallOf(t, {})' = Of(t, {blk}) /\ CallOf(t, Uncommitted)' = Of(t, {blk})
        /\ CallOf(t, Uncounted)' = Of(t, {blk})
    BY <1>3, <1>4, <2>2 DEF CallOf, Uncommitted, Uncounted
  <2>4. /\ OwnersCover(Owners({blk}, {}, {}, {})) = BlockSpan(blk)
        /\ OwnersCover(Owners({}, {}, {}, Of(t, {blk}))) = BlockSpan(blk)
        /\ OwnersApart(Owners({}, {}, {}, Of(t, {blk})))
    BY OwnersOfOne
  <2>5. Traded(live, {blk}, {}, live')
    BY <1>2 DEF Traded
  <2>6. Traded(FreeInSmall, {}, {}, FreeInSmall') /\ Traded(FreeInLarge, {}, {}, FreeInLarge')
    BY <1>2 DEF Traded, FreeInSmall, SmallBlocks, FreeInLarge
  <2> QED BY <1>3, <2>1, <2>3, <2>4, <2>5, <2>6, TradeKeeps
<1>6. Shapes'
  BY <1>1, <1>2 DEF Shapes, Steps, FreeSteps
<1>7. OwnInOrder(t)'
  BY <1>1, <1>3, <1>4 DEF OwnInOrder, AllocSteps, FreeSteps
<1>8. Control' /\ Exhausted'
  BY <1>2, <1>3, <1>7, OwnIsEnough
<1>9. Placed'
  BY <1>2 DEF Placed, SmallBlocks, FreeInLarge, AllAligned
<1>10. Memory'
  BY <1>2, <1>5, MemoryStays
<1> QED BY <1>5, <1>6, <1>8, <1>9, <1>10

(* deallocate_block of the large buddy, under the lock, keeps them.        *)
LEMMA LargeDeallocateKeeps ==
  ASSUME Base, NEW t \in Threads, LargeDeallocate(t)
  PROVE  Base' /\ MemoryKept
<1> USE DEF Base
<1> PICK addr, index : addr = ptr[t] /\ index = want[t]
  OBVIOUS
<1>1. /\ pc[t] = "lock_dealloc" /\ addr \in Nat /\ addr # nullptr
      /\ index \in 0 .. AddressBits - 1 /\ PageBits <= index /\ index \in Large!BlockBits
      /\ BlockBits(index) = index /\ Aligned(addr, index)
      /\ large \in [Large!BlockBits -> SUBSET Nat]
  <2>1. /\ pc[t] = "lock_dealloc" /\ addr \in Nat /\ addr # nullptr
        /\ index \in 0 .. AddressBits - 1 /\ PageBits <= index /\ Aligned(addr, BlockBits(index))
    BY SizesAre DEF LargeDeallocate, Control, Shapes, AllocSteps, FreeSteps
  <2>2. BlockBits(index) = index /\ BlockBits(index) \in Large!BlockBits
    BY <2>1, SizesAre, BlockBitsAre
  <2> QED BY <2>1, <2>2 DEF Shapes
<1> DEFINE res == Large!deallocate_block(large, addr, index)
<1>2. /\ res.trees \in [Large!BlockBits -> SUBSET Nat]
      /\ Rejoined(addr, index, AddressBits, Large!FreeBlocks(large), Large!FreeBlocks(res.trees), res.node)
  BY <1>1, LargeDeallocateJoins
<1>3. /\ large' = res.trees
      /\ pc' = [pc EXCEPT ![t] = "idle"]
      /\ want' = [want EXCEPT ![t] = 0]
      /\ ptr' = [ptr EXCEPT ![t] = nullptr]
      /\ UNCHANGED <<mapped, writable, registered, small, live>>
  BY DEF LargeDeallocate, Finish, os
<1> HIDE DEF res
<1>4. PICK joined \in SUBSET FreeInLarge, stop \in index .. AddressBits, m \in Nat :
        /\ Aligned(m, stop)
        /\ Joins(<<addr, index>>, joined, <<m, stop>>)
        /\ stop < AddressBits => FreeInLarge' = (FreeInLarge \ joined) \cup {<<m, stop>>}
  BY <1>2, <1>3 DEF FreeInLarge, Rejoined
<1>5. /\ ptr'[t] = nullptr /\ pc'[t] = "idle"
      /\ \A u \in Threads \ {t} : pc'[u] = pc[u] /\ ptr'[u] = ptr[u] /\ want'[u] = want[u]
  BY <1>3 DEF Shapes
<1>6. PICK blk, merged : blk = <<addr, index>> /\ merged = <<m, stop>>
  OBVIOUS
<1>7. CallBlock(t) = blk /\ CallOf(t, {}) = Of(t, {blk})
  BY <1>1, <1>6 DEF CallBlock, CallOf
<1>8. OwnersCover(Owners({}, {}, joined, Of(t, {blk}))) = BlockSpan(merged)
  <2>1. Joins(blk, joined, merged)
    BY <1>4, <1>6
  <2> QED BY <2>1, OwnersOfMerged
<1>9. stop # AddressBits
  <2>1. Owners({}, {}, joined, Of(t, {blk})) \subseteq AllOwners
    <3>1. Of(t, {blk}) \subseteq Calls({})
      BY <1>7 DEF Calls
    <3> QED BY <3>1 DEF AllOwners, Owners
  <2>2. BlockSpan(merged) \subseteq AddressesOf(mapped)
    BY <1>8, <2>1 DEF Memory, OwnersCover
  <2>3. m \in BlockSpan(merged)
    <3>1. stop \in Nat
      BY <1>1, SizesAre
    <3> QED BY <1>6, <3>1, SpanIs DEF BlockSpan
  <2>4. m < 2 ^ AddressBits /\ m > 0
    BY <2>2, <2>3, MmapPagesAre DEF AddressesOf, Shapes
  <2>5. SUFFICES ASSUME stop = AddressBits PROVE FALSE
    OBVIOUS
  <2>6. PICK s \in Nat \ {0} : s = 2 ^ AddressBits
    BY SizesAre, Pow2Pos
  <2>7. (0 * s + m) % s = m
    BY <2>4, <2>6, RemOfSum
  <2>8. m % s = 0
    BY <1>4, <2>5, <2>6 DEF Aligned
  <2>9. 0 * s + m = m
    BY <2>6
  <2> QED BY <2>4, <2>7, <2>8, <2>9
<1>10. stop \in Large!BlockBits /\ FreeInLarge' = (FreeInLarge \ joined) \cup {merged}
  BY <1>1, <1>4, <1>6, <1>9, LargeSame, SizesAre
<1>11. MemoryKept
  <2>1. \A H : CallOf(t, H)' = {}
    BY <1>5 DEF CallOf
  <2>2. CallOf(t, Uncommitted) = {} /\ CallOf(t, Uncounted) = {}
    BY <1>1 DEF CallOf, Uncommitted, Uncounted
  <2>3. /\ OwnersCover(Owners({}, {}, {merged}, {})) = BlockSpan(merged)
        /\ OwnersApart(Owners({}, {}, {merged}, {}))
    BY OwnersOfOne
  <2>4. Traded(live, {}, {}, live') /\ Traded(FreeInSmall, {}, {}, FreeInSmall')
    BY <1>3 DEF Traded, FreeInSmall, SmallBlocks
  <2>5. Traded(FreeInLarge, joined, {merged}, FreeInLarge')
    BY <1>10 DEF Traded
  <2> QED BY <1>5, <1>7, <1>8, <2>1, <2>2, <2>3, <2>4, <2>5, TradeKeeps
<1>12. Shapes'
  <2>1. 0 \in 0 .. AddressBits - 1 /\ nullptr \in Nat
    BY SizesAre DEF nullptr
  <2> QED BY <1>2, <1>3, <2>1 DEF Shapes, Steps
<1>13. OwnInOrder(t)'
  BY <1>5 DEF OwnInOrder, AllocSteps, FreeSteps
<1>14. Control' /\ Exhausted'
  BY <1>3, <1>5, <1>13, OwnIsEnough
<1>15. Placed'
  <2>1. AllAligned(FreeInLarge')
    BY <1>4, <1>6, <1>10 DEF Placed, AllAligned
  <2> QED BY <1>3, <2>1 DEF Placed, SmallBlocks
<1>16. Memory'
  BY <1>3, <1>11, MemoryStays
<1> QED BY <1>11, <1>12, <1>14, <1>15, <1>16

(* A small block that is freed joins its neighbours in the tree of the     *)
(* thread that frees it, or leaves it with them as a page.                  *)
LEMMA SmallDeallocateKeeps ==
  ASSUME Base, NEW t \in Threads, NEW blk \in live, SmallDeallocate(t, blk)
  PROVE  Base' /\ MemoryKept
<1> USE DEF Base
<1> PICK addr, index : addr = blk[1] /\ index = blk[2]
  OBVIOUS
<1>1. /\ addr \in Nat /\ index \in Small!BlockBits /\ index \in Nat /\ blk = <<addr, index>>
      /\ Aligned(addr, index) /\ pc[t] = "idle" /\ ptr[t] = nullptr
      /\ small[t] \in [Small!BlockBits -> SUBSET Nat]
      /\ AllAligned(Small!FreeBlocks(small[t])) /\ Merged(small[t])
  <2>1. blk \in Nat \X Sizes /\ blk[2] < PageBits /\ pc[t] = "idle" /\ ptr[t] = nullptr
    BY DEF SmallDeallocate, Shapes, Control
  <2>2. addr \in Nat /\ index \in Sizes /\ index < PageBits /\ blk = <<addr, index>>
    BY <2>1
  <2>3. index \in Small!BlockBits /\ index \in Nat
    BY <2>2, SizesAre, SmallSame
  <2>4. Aligned(addr, index)
    BY DEF Placed, AllAligned
  <2> QED BY <2>1, <2>2, <2>3, <2>4 DEF Shapes, Placed, SmallBlocks
<1> DEFINE res == Small!deallocate_block(small[t], addr, index)
<1>2. /\ res.trees \in [Small!BlockBits -> SUBSET Nat]
      /\ Rejoined(addr, index, PageBits, Small!FreeBlocks(small[t]), Small!FreeBlocks(res.trees), res.node)
  BY <1>1, SmallDeallocateJoins
<1>3. Merged(res.trees)
  BY <1>1, DeallocateKeepsMerged
<1>4. /\ live' = live \ {blk}
      /\ small' = [small EXCEPT ![t] = res.trees]
      /\ UNCHANGED <<mapped, writable, registered, large>>
      /\ res.node = nullptr => UNCHANGED <<pc, want, ptr>>
      /\ res.node # nullptr => /\ pc' = [pc EXCEPT ![t] = "stats_sub"]
                               /\ want' = [want EXCEPT ![t] = PageBits]
                               /\ ptr' = [ptr EXCEPT ![t] = res.node]
  BY DEF SmallDeallocate, os, calls
<1> PICK x \in [Small!BlockBits -> SUBSET Nat] : x = res.trees
  BY <1>2
<1> PICK node : node = res.node
  OBVIOUS
<1> HIDE DEF res
<1>5. PICK joined \in SUBSET SmallBlocks(t), stop \in index .. PageBits, m \in Nat :
        /\ Aligned(m, stop)
        /\ Joins(<<addr, index>>, joined, <<m, stop>>)
        /\ stop < PageBits => node = nullptr /\ Small!FreeBlocks(x) = (SmallBlocks(t) \ joined) \cup {<<m, stop>>}
        /\ stop = PageBits => node = m /\ Small!FreeBlocks(x) = SmallBlocks(t) \ joined
  BY <1>2 DEF SmallBlocks, Rejoined
<1>6. PICK merged : merged = <<m, stop>>
  OBVIOUS
<1>7. \A u \in Threads \ {t} : pc'[u] = pc[u] /\ ptr'[u] = ptr[u] /\ want'[u] = want[u]
  <2>1. CASE res.node = nullptr
    BY <1>4, <2>1
  <2>2. CASE res.node # nullptr
    BY <1>4, <2>2 DEF Shapes
  <2> QED BY <2>1, <2>2
<1>8. OwnersCover(Owners({blk}, Of(t, joined), {}, {})) = BlockSpan(merged)
  <2>1. Joins(blk, joined, merged)
    BY <1>1, <1>5, <1>6
  <2> QED BY <2>1, OwnersOfMerged
<1>9. m # nullptr
  <2>1. Owners({blk}, Of(t, joined), {}, {}) \subseteq AllOwners
    <3>1. Of(t, joined) \subseteq FreeInSmall
      BY DEF FreeInSmall, Of
    <3> QED BY <3>1 DEF AllOwners, Owners
  <2>2. BlockSpan(merged) \subseteq AddressesOf(mapped)
    BY <1>8, <2>1 DEF Memory, OwnersCover
  <2>3. m \in BlockSpan(merged)
    <3>1. stop \in Nat
      BY <1>1, SizesAre
    <3> QED BY <1>6, <3>1, SpanIs DEF BlockSpan
  <2>4. m \div PageSize \in MmapPages
    BY <2>2, <2>3 DEF AddressesOf, Shapes
  <2> QED BY <2>4, MmapPagesAre DEF nullptr
<1>10. Traded(live, {blk}, {}, live') /\ Traded(FreeInLarge, {}, {}, FreeInLarge')
  BY <1>4 DEF Traded, FreeInLarge
<1>11. /\ small' \in [Threads -> [Small!BlockBits -> SUBSET Nat]]
       /\ \A u \in Threads : AllAligned(SmallBlocks(u)') /\ Merged(small'[u])
       /\ \A u \in Threads \ {t} : small'[u] = small[u]
  <2>1. Small!FreeBlocks(x) \subseteq SmallBlocks(t) \cup {<<m, stop>>}
    BY <1>5, SizesAre, <1>1
  <2>2. AllAligned(SmallBlocks(t)) /\ Aligned(m, stop)
    BY <1>1, <1>5 DEF SmallBlocks
  <2>3. AllAligned(Small!FreeBlocks(x))
    BY <2>1, <2>2 DEF AllAligned
  <2> QED BY <1>3, <1>4, <2>3, SmallPlaced
<1>12. Placed'
  BY <1>4, <1>11 DEF Placed, AllAligned, FreeInLarge
<1>13. live' \subseteq Nat \X Sizes
  BY <1>4 DEF Shapes
<1>14. CASE stop < PageBits
  <2>1. UNCHANGED <<pc, want, ptr>>
    BY <1>4, <1>5, <1>14
  <2>2. Traded(FreeInSmall, Of(t, joined), Of(t, {merged}), FreeInSmall')
    BY <1>4, <1>5, <1>6, <1>14, SmallChanges
  <2>3. MemoryKept
    <3>1. \A H : CallOf(t, H) = {} /\ CallOf(t, H)' = {}
      BY <1>1, <2>1 DEF CallOf
    <3>2. /\ OwnersCover(Owners({}, Of(t, {merged}), {}, {})) = BlockSpan(merged)
          /\ OwnersApart(Owners({}, Of(t, {merged}), {}, {}))
      BY OwnersOfOne
    <3> QED BY <1>7, <1>8, <1>10, <2>2, <3>1, <3>2, TradeKeeps
  <2>4. Shapes'
    BY <1>4, <1>11, <1>13, <2>1 DEF Shapes
  <2>5. OwnInOrder(t)'
    BY <1>1, <2>1 DEF OwnInOrder, AllocSteps, FreeSteps
  <2>6. Control' /\ Exhausted'
    BY <1>7, <1>11, <2>5, OwnIsEnough
  <2>7. Memory'
    BY <1>4, <2>3, MemoryStays
  <2> QED BY <1>12, <2>3, <2>4, <2>6, <2>7
<1>15. CASE stop = PageBits
  <2>1. /\ pc' = [pc EXCEPT ![t] = "stats_sub"]
        /\ want' = [want EXCEPT ![t] = PageBits]
        /\ ptr' = [ptr EXCEPT ![t] = m]
    BY <1>4, <1>5, <1>9, <1>15
  <2>2. pc'[t] = "stats_sub" /\ want'[t] = PageBits /\ ptr'[t] = m
    BY <2>1 DEF Shapes
  <2>3. PageBits \in 0 .. AddressBits - 1 /\ BlockBits(PageBits) = PageBits
    <3>1. PageBits \in 0 .. AddressBits - 1
      BY SizesAre
    <3> QED BY <3>1, SizesAre, BlockBitsAre
  <2>4. Traded(FreeInSmall, Of(t, joined), {}, FreeInSmall')
    <3>1. Small!FreeBlocks(x) = (SmallBlocks(t) \ joined) \cup {}
      BY <1>5, <1>15
    <3>2. Traded(FreeInSmall, Of(t, joined), Of(t, {}), FreeInSmall')
      BY <1>4, <3>1, SmallChanges
    <3>3. Of(t, {}) = {}
      BY DEF Of
    <3> QED BY <3>2, <3>3
  <2>5. MemoryKept
    <3>1. \A H : CallOf(t, H) = {}
      BY <1>1, NoCall
    <3>2. CallBlock(t)' = merged
      BY <1>6, <1>15, <2>2, <2>3 DEF CallBlock, BlockBits
    <3>3. /\ CallOf(t, {})' = Of(t, {merged}) /\ CallOf(t, Uncommitted)' = Of(t, {merged})
          /\ CallOf(t, Uncounted)' = Of(t, {merged})
      BY <1>9, <2>2, <3>2 DEF CallOf, Uncommitted, Uncounted
    <3>4. /\ OwnersCover(Owners({}, {}, {}, Of(t, {merged}))) = BlockSpan(merged)
          /\ OwnersApart(Owners({}, {}, {}, Of(t, {merged})))
      BY OwnersOfOne
    <3> QED BY <1>7, <1>8, <1>10, <2>4, <3>1, <3>3, <3>4, TradeKeeps
  <2>6. Shapes'
    BY <1>4, <1>11, <1>13, <2>1, <2>3 DEF Shapes, Steps, FreeSteps
  <2>7. OwnInOrder(t)'
    <3>1. Aligned(m, PageBits)
      BY <1>5, <1>15
    <3> QED BY <1>9, <2>2, <2>3, <3>1, SizesAre DEF OwnInOrder, AllocSteps, FreeSteps, BlockBits
  <2>8. Control' /\ Exhausted'
    BY <1>7, <1>11, <2>7, OwnIsEnough
  <2>9. Memory'
    BY <1>4, <2>5, MemoryStays
  <2> QED BY <1>12, <2>5, <2>6, <2>8, <2>9
<1>16. stop < PageBits \/ stop = PageBits
  BY <1>1, SizesAre
<1> QED BY <1>14, <1>15, <1>16

(* Nobody owns nothing, and nothing has been traded.                       *)
LEMMA NoOwners ==
  /\ OwnersApart(Owners({}, {}, {}, {}))
  /\ \A A : Traded(A, {}, {}, A)
BY DEF OwnersApart, Owners, Traded

(* A call returns its block, of which a small request takes a part.         *)
LEMMA ReturnKeeps ==
  ASSUME Base, NEW t \in Threads, Return(t)
  PROVE  Base' /\ MemoryKept
<1> USE DEF Base
<1> PICK p, bits : p = ptr[t] /\ bits = want[t]
  OBVIOUS
<1>1. /\ pc[t] = "return" /\ bits \in Sizes /\ bits \in Nat /\ bits \in 0 .. AddressBits - 1
      /\ p \in Nat
      /\ p # nullptr => Aligned(p, BlockBits(bits))
      /\ small[t] \in [Small!BlockBits -> SUBSET Nat]
      /\ AllAligned(SmallBlocks(t)) /\ Merged(small[t])
      /\ bits < PageBits => Small!Donors(small[t], bits) = {}
  BY SizesAre DEF Return, Shapes, Control, Placed, Exhausted, AllocSteps
<1>2. /\ pc' = [pc EXCEPT ![t] = "idle"]
      /\ want' = [want EXCEPT ![t] = 0]
      /\ ptr' = [ptr EXCEPT ![t] = nullptr]
      /\ UNCHANGED <<mapped, writable, registered, large>>
      /\ p = nullptr => UNCHANGED <<small, live>>
      /\ p # nullptr => live' = live \cup {<<p, bits>>}
      /\ p # nullptr /\ bits < PageBits =>
           small' = [small EXCEPT ![t] = Small!divide_block(small[t], p, PageBits, bits)]
      /\ p # nullptr /\ ~(bits < PageBits) => small' = small
  BY <1>1 DEF Return, Finish, os, Shapes
<1>3. /\ ptr'[t] = nullptr /\ pc'[t] = "idle"
      /\ \A u \in Threads \ {t} : pc'[u] = pc[u] /\ ptr'[u] = ptr[u] /\ want'[u] = want[u]
  BY <1>2 DEF Shapes
<1>4. \A H : CallOf(t, H)' = {}
  BY <1>3 DEF CallOf
<1>5. FreeInLarge' = FreeInLarge /\ Traded(FreeInLarge, {}, {}, FreeInLarge')
  BY <1>2 DEF FreeInLarge, Traded
<1>6. OwnInOrder(t)'
  BY <1>3 DEF OwnInOrder, AllocSteps, FreeSteps
<1>7. /\ pc' \in [Threads -> Steps] /\ want' \in [Threads -> 0 .. AddressBits - 1]
      /\ ptr' \in [Threads -> Nat]
  <2>1. 0 \in 0 .. AddressBits - 1 /\ nullptr \in Nat
    BY SizesAre DEF nullptr
  <2> QED BY <1>2, <2>1 DEF Shapes, Steps
<1>8. CASE p = nullptr
  <2>1. UNCHANGED <<small, live>>
    BY <1>2, <1>8
  <2>2. MemoryKept
    <3>1. \A H : CallOf(t, H) = {}
      BY <1>8, NoCall
    <3>2. Traded(live, {}, {}, live') /\ Traded(FreeInSmall, {}, {}, FreeInSmall')
      BY <2>1 DEF Traded, FreeInSmall, SmallBlocks
    <3> QED BY <1>3, <1>4, <1>5, <3>1, <3>2, NoOwners, TradeKeeps
  <2>3. Shapes' /\ Placed'
    BY <1>2, <1>5, <1>7, <2>1 DEF Shapes, Placed, SmallBlocks
  <2>4. Control' /\ Exhausted'
    BY <1>3, <1>6, <2>1, OwnIsEnough
  <2>5. Memory'
    BY <1>2, <2>2, MemoryStays
  <2> QED BY <2>2, <2>3, <2>4, <2>5
<1>9. CASE p # nullptr /\ ~(bits < PageBits)
  <2>1. small' = small /\ live' = live \cup {<<p, bits>>} /\ BlockBits(bits) = bits
    BY <1>1, <1>2, <1>9, SizesAre, BlockBitsAre
  <2>2. PICK blk : blk = <<p, bits>>
    OBVIOUS
  <2>3. MemoryKept
    <3>1. CallBlock(t) = blk
      BY <2>1, <2>2 DEF CallBlock
    <3>2. /\ CallOf(t, {}) = Of(t, {blk}) /\ CallOf(t, Uncommitted) = Of(t, {blk})
          /\ CallOf(t, Uncounted) = Of(t, {blk})
      BY <1>1, <1>9, <3>1 DEF CallOf, Uncommitted, Uncounted
    <3>3. Traded(live, {}, {blk}, live') /\ Traded(FreeInSmall, {}, {}, FreeInSmall')
      BY <2>1, <2>2 DEF Traded, FreeInSmall, SmallBlocks
    <3>4. /\ OwnersCover(Owners({blk}, {}, {}, {})) = BlockSpan(blk)
          /\ OwnersCover(Owners({}, {}, {}, Of(t, {blk}))) = BlockSpan(blk)
          /\ OwnersApart(Owners({blk}, {}, {}, {}))
      BY OwnersOfOne
    <3> QED BY <1>3, <1>4, <1>5, <3>2, <3>3, <3>4, TradeKeeps
  <2>4. Shapes'
    <3>1. live' \subseteq Nat \X Sizes
      BY <1>1, <2>1 DEF Shapes
    <3> QED BY <1>2, <1>7, <2>1, <3>1 DEF Shapes
  <2>5. Placed'
    <3>1. AllAligned(live')
      <4>1. Aligned(p, bits)
        BY <1>1, <1>9, <2>1
      <4> QED BY <2>1, <4>1 DEF Placed, AllAligned
    <3> QED BY <1>5, <2>1, <3>1 DEF Placed, SmallBlocks
  <2>6. Control' /\ Exhausted'
    BY <1>3, <1>6, <2>1, OwnIsEnough
  <2>7. Memory'
    BY <1>2, <2>3, MemoryStays
  <2> QED BY <2>3, <2>4, <2>5, <2>6, <2>7
<1>10. CASE p # nullptr /\ bits < PageBits
  <2> DEFINE t2 == Small!divide_block(small[t], p, PageBits, bits)
  <2>1. /\ small' = [small EXCEPT ![t] = t2] /\ live' = live \cup {<<p, bits>>}
        /\ BlockBits(bits) = PageBits /\ Aligned(p, PageBits)
        /\ bits \in Small!BlockBits /\ Small!Donors(small[t], bits) = {}
        /\ bits <= PageBits /\ PageBits \in Nat /\ PageBits <= PageBits
    <3>1. small' = [small EXCEPT ![t] = t2] /\ live' = live \cup {<<p, bits>>}
      BY <1>2, <1>10
    <3>2. BlockBits(bits) = PageBits
      BY <1>1, <1>10, BlockBitsAre
    <3>3. bits \in Small!BlockBits
      BY <1>1, <1>10, SizesAre, SmallSame
    <3> HIDE DEF t2
    <3> QED BY <1>1, <1>10, <3>1, <3>2, <3>3, SizesAre
  <2>2. /\ t2 \in [Small!BlockBits -> SUBSET Nat]
        /\ \E rest : /\ Splits(<<p, PageBits>>, <<p, bits>>, rest)
                     /\ rest \subseteq Nat \X Small!BlockBits
                     /\ Small!FreeBlocks(t2) = Small!FreeBlocks(small[t]) \cup rest
    BY <1>1, <2>1, SmallDivideSplits
  <2>3. Merged(t2)
    BY <1>1, <2>1, DivideKeepsMerged
  <2>4. PICK rest : /\ Splits(<<p, PageBits>>, <<p, bits>>, rest)
                    /\ Small!FreeBlocks(t2) = SmallBlocks(t) \cup rest
    BY <2>2 DEF SmallBlocks
  <2> PICK x \in [Small!BlockBits -> SUBSET Nat] : x = t2
    BY <2>2
  <2> HIDE DEF t2
  <2>5. PICK old, piece : old = <<p, PageBits>> /\ piece = <<p, bits>>
    OBVIOUS
  <2>6. Traded(FreeInSmall, {}, Of(t, rest), FreeInSmall')
    <3>1. Small!FreeBlocks(x) = (SmallBlocks(t) \ {}) \cup rest
      BY <2>4
    <3>2. Traded(FreeInSmall, Of(t, {}), Of(t, rest), FreeInSmall')
      BY <2>1, <3>1, SmallChanges
    <3>3. Of(t, {}) = {}
      BY DEF Of
    <3> QED BY <3>2, <3>3
  <2>7. MemoryKept
    <3>1. CallBlock(t) = old
      BY <2>1, <2>5 DEF CallBlock
    <3>2. /\ CallOf(t, {}) = Of(t, {old}) /\ CallOf(t, Uncommitted) = Of(t, {old})
          /\ CallOf(t, Uncounted) = Of(t, {old})
      BY <1>1, <1>10, <3>1 DEF CallOf, Uncommitted, Uncounted
    <3>3. Traded(live, {}, {piece}, live')
      BY <2>1, <2>5 DEF Traded
    <3>4. OwnersCover(Owners({}, {}, {}, Of(t, {old}))) = BlockSpan(old)
      BY OwnersOfOne
    <3>5. /\ OwnersCover(Owners({piece}, Of(t, rest), {}, {})) = BlockSpan(old)
          /\ OwnersApart(Owners({piece}, Of(t, rest), {}, {}))
      BY <2>4, <2>5, OwnersOfPieces
    <3> QED BY <1>3, <1>4, <1>5, <2>6, <3>2, <3>3, <3>4, <3>5, TradeKeeps
  <2>8. Aligned(p, bits) /\ AllAligned(rest)
    BY <2>4 DEF Splits, AllAligned
  <2>9. /\ small' \in [Threads -> [Small!BlockBits -> SUBSET Nat]]
        /\ \A u \in Threads : AllAligned(SmallBlocks(u)') /\ Merged(small'[u])
        /\ \A u \in Threads \ {t} : small'[u] = small[u]
    <3>1. AllAligned(Small!FreeBlocks(x)) /\ Merged(x)
      BY <1>1, <2>3, <2>4, <2>8 DEF AllAligned
    <3> QED BY <2>1, <3>1, SmallPlaced
  <2>10. Shapes'
    <3>1. live' \subseteq Nat \X Sizes
      BY <1>1, <2>1 DEF Shapes
    <3> QED BY <1>2, <1>7, <2>9, <3>1 DEF Shapes
  <2>11. Placed'
    <3>1. AllAligned(live')
      BY <2>1, <2>8 DEF Placed, AllAligned
    <3> QED BY <1>5, <2>9, <3>1 DEF Placed
  <2>12. Control' /\ Exhausted'
    BY <1>3, <1>6, <2>9, OwnIsEnough
  <2>13. Memory'
    BY <1>2, <2>7, MemoryStays
  <2> QED BY <2>7, <2>10, <2>11, <2>12, <2>13
<1> QED BY <1>8, <1>9, <1>10

-----------------------------------------------------------------------------
(* The other steps.                                                        *)
LEMMA SameOwners ==
  ASSUME UNCHANGED <<small, large, live>>,
         \A H : \A u \in Threads : CallOf(u, H)' = CallOf(u, H)
  PROVE  MemoryKept
<1>1. FreeInSmall' = FreeInSmall /\ FreeInLarge' = FreeInLarge
  BY DEF FreeInSmall, FreeInLarge, SmallBlocks
<1>2. Calls({})' = Calls({}) /\ Calls(Uncommitted)' = Calls(Uncommitted) /\ Calls(Uncounted)' = Calls(Uncounted)
  BY CallsSame
<1>3. AllOwners' = AllOwners /\ CommittedOwners' = CommittedOwners /\ CountedOwners' = CountedOwners
  BY <1>1, <1>2 DEF AllOwners, CommittedOwners, CountedOwners
<1> QED BY <1>3 DEF MemoryKept

(* A thread asks for a block, or exits.                                     *)
LEMMA RequestKeeps ==
  ASSUME Base, NEW t \in Threads, NEW bits \in Sizes, Request(t, bits)
  PROVE  Base' /\ MemoryKept
<1> USE DEF Base
<1>1. /\ pc[t] = "idle" /\ ptr[t] = nullptr
      /\ bits < PageBits => Small!Donors(small[t], bits) = {}
      /\ pc' = [pc EXCEPT ![t] = "lock_alloc"]
      /\ want' = [want EXCEPT ![t] = bits]
      /\ UNCHANGED <<mapped, writable, registered, large, small, live, ptr>>
  BY DEF Request, os, Control
<1>2. /\ pc'[t] = "lock_alloc" /\ want'[t] = bits
      /\ \A u \in Threads \ {t} : pc'[u] = pc[u] /\ ptr'[u] = ptr[u] /\ want'[u] = want[u]
      /\ \A u \in Threads \ {t} : small'[u] = small[u]
  BY <1>1 DEF Shapes
<1>3. MemoryKept
  <2>1. ASSUME NEW H, NEW u \in Threads PROVE CallOf(u, H)' = CallOf(u, H)
    <3>1. CASE u = t
      BY <1>1, <3>1 DEF CallOf
    <3>2. CASE u # t
      BY <1>2, <3>2 DEF CallOf, CallBlock
    <3> QED BY <3>1, <3>2
  <2> QED BY <1>1, <2>1, SameOwners
<1>4. Shapes'
  <2>1. bits \in 0 .. AddressBits - 1
    BY SizesAre
  <2> QED BY <1>1, <2>1 DEF Shapes, Steps, AllocSteps
<1>5. OwnInOrder(t)'
  BY <1>1, <1>2 DEF OwnInOrder, AllocSteps, FreeSteps
<1>6. Control' /\ Exhausted'
  BY <1>2, <1>5, OwnIsEnough
<1>7. Placed'
  BY <1>1 DEF Placed, SmallBlocks, FreeInLarge
<1>8. Memory'
  BY <1>1, <1>3, MemoryStays
<1> QED BY <1>3, <1>4, <1>6, <1>7, <1>8

(* The exit of a thread leaves every block with its owner.                 *)
LEMMA ExitKeeps ==
  ASSUME Base, NEW t \in Threads, Exit(t)
  PROVE  Base' /\ MemoryKept
<1> USE DEF Base
<1>1. /\ pc[t] = "idle" /\ ptr[t] = nullptr
      /\ pc' = [pc EXCEPT ![t] = "exited"]
      /\ UNCHANGED <<mapped, writable, registered, large, small, live, want, ptr>>
  BY DEF Exit, os, Control
<1>2. /\ pc'[t] = "exited"
      /\ \A u \in Threads \ {t} : pc'[u] = pc[u] /\ ptr'[u] = ptr[u] /\ want'[u] = want[u]
      /\ \A u \in Threads \ {t} : small'[u] = small[u]
  BY <1>1 DEF Shapes
<1>3. MemoryKept
  <2>1. ASSUME NEW H, NEW u \in Threads PROVE CallOf(u, H)' = CallOf(u, H)
    <3>1. CASE u = t
      BY <1>1, <3>1 DEF CallOf
    <3>2. CASE u # t
      BY <1>2, <3>2 DEF CallOf, CallBlock
    <3> QED BY <3>1, <3>2
  <2> QED BY <1>1, <2>1, SameOwners
<1>4. Shapes'
  BY <1>1 DEF Shapes, Steps
<1>5. OwnInOrder(t)'
  BY <1>1, <1>2 DEF OwnInOrder, AllocSteps, FreeSteps
<1>6. Control' /\ Exhausted'
  BY <1>2, <1>5, OwnIsEnough
<1>7. Placed'
  BY <1>1 DEF Placed, SmallBlocks, FreeInLarge
<1>8. Memory'
  BY <1>1, <1>3, MemoryStays
<1> QED BY <1>3, <1>4, <1>6, <1>7, <1>8

(* The steps of the peak.                                                   *)
LEMMA PeakKeeps ==
  ASSUME Base, NEW t \in Threads, PeakLoad(t) \/ PeakExchange(t)
  PROVE  Base' /\ MemoryKept /\ UNCHANGED <<mapped, writable, registered>>
<1> USE DEF Base
<1>1. /\ pc[t] \in {"peak_load", "peak_cas"}
      /\ UNCHANGED <<mapped, writable, registered, large, small, live, want, ptr>>
      /\ \E s \in {"peak_cas", "return"} : pc' = [pc EXCEPT ![t] = s]
  BY DEF PeakLoad, PeakExchange, AfterPeakRead, os
<1>2. PICK s \in {"peak_cas", "return"} : pc' = [pc EXCEPT ![t] = s]
  BY <1>1
<1>3. ptr[t] # nullptr /\ writable' \subseteq mapped
  BY <1>1 DEF Control, Shapes, AllocSteps
<1>4. pc[t] \in AllocSteps /\ s \in AllocSteps \ {"lock_alloc"}
  BY <1>1, <1>2 DEF AllocSteps
<1>5. /\ Base'
      /\ AllOwners' = AllOwners /\ pc'[t] = s /\ \A u \in Threads \ {t} : pc'[u] = pc[u]
  BY <1>1, <1>2, <1>3, <1>4, PassesOn
<1>6. ASSUME NEW H \in {Uncommitted, Uncounted} PROVE Above(H)' = Above(H)
  <2>1. pc[t] \notin H /\ pc'[t] \notin H
    BY <1>1, <1>5 DEF Uncommitted, Uncounted
  <2> QED BY <1>1, <1>3, <1>5, <2>1, CallShown
<1>7. CommittedOwners' = CommittedOwners /\ CountedOwners' = CountedOwners
  BY <1>6 DEF CommittedOwners, CountedOwners, Above
<1> QED BY <1>1, <1>5, <1>7 DEF MemoryKept

(* The steps that count the block of a call, or commit its pages.           *)
LEMMA CommitKeeps ==
  ASSUME Base, NEW t \in Threads, Commit(t)
  PROVE  /\ Base' /\ ptr[t] # nullptr
         /\ OwnersCover(CommittedOwners') = OwnersCover(CommittedOwners) \cup BlockSpan(CallBlock(t))
         /\ CountedOwners' = CountedOwners
<1> USE DEF Base
<1>1. /\ pc[t] = "commit" /\ pc' = [pc EXCEPT ![t] = "stats_add"]
      /\ UNCHANGED <<mapped, registered, large, small, live, want, ptr>>
      /\ writable' \subseteq mapped
  BY DEF Commit, Shapes
<1>2. ptr[t] # nullptr /\ pc[t] \in AllocSteps /\ "stats_add" \in AllocSteps \ {"lock_alloc"}
  BY <1>1 DEF Control, AllocSteps
<1>3. /\ Base'
      /\ pc'[t] = "stats_add" /\ \A u \in Threads \ {t} : pc'[u] = pc[u]
  BY <1>1, <1>2, PassesOn
<1>4. Above(Uncounted)' = Above(Uncounted)
  <2>1. pc[t] \in Uncounted /\ pc'[t] \in Uncounted
    BY <1>1, <1>3 DEF Uncounted
  <2> QED BY <1>1, <1>2, <1>3, <2>1, CallShown
<1>5. OwnersCover(Above(Uncommitted)') = OwnersCover(Above(Uncommitted)) \cup BlockSpan(CallBlock(t))
  <2>1. pc[t] \in Uncommitted /\ pc'[t] \notin Uncommitted
    BY <1>1, <1>3 DEF Uncommitted
  <2> QED BY <1>1, <1>2, <1>3, <2>1, CallShown
<1> QED BY <1>2, <1>3, <1>4, <1>5 DEF CommittedOwners, CountedOwners, Above

(* When stats_range counts a block on its way up, the counted memory grows *)
(* by exactly its addresses.                                               *)
LEMMA StatsAddKeeps ==
  ASSUME Base, NEW t \in Threads, StatsAdd(t)
  PROVE  /\ Base' /\ ptr[t] # nullptr
         /\ CommittedOwners' = CommittedOwners
         /\ OwnersCover(CountedOwners') = OwnersCover(CountedOwners) \cup BlockSpan(CallBlock(t))
         /\ OwnersCover(CountedOwners) \cap BlockSpan(CallBlock(t)) = {}
<1> USE DEF Base
<1>1. /\ pc[t] = "stats_add" /\ pc' = [pc EXCEPT ![t] = "peak_load"]
      /\ UNCHANGED <<mapped, writable, registered, large, small, live, want, ptr>>
  BY DEF StatsAdd, os
<1>2. /\ ptr[t] # nullptr /\ pc[t] \in AllocSteps /\ "peak_load" \in AllocSteps \ {"lock_alloc"}
      /\ writable' \subseteq mapped
  BY <1>1 DEF Control, AllocSteps, Shapes
<1>3. /\ Base'
      /\ pc'[t] = "peak_load" /\ \A u \in Threads \ {t} : pc'[u] = pc[u]
  BY <1>1, <1>2, PassesOn
<1>4. Above(Uncommitted)' = Above(Uncommitted)
  <2>1. pc[t] \notin Uncommitted /\ pc'[t] \notin Uncommitted
    BY <1>1, <1>3 DEF Uncommitted
  <2> QED BY <1>1, <1>2, <1>3, <2>1, CallShown
<1>5. pc[t] \in Uncounted /\ pc'[t] \notin Uncounted
  BY <1>1, <1>3 DEF Uncounted
<1>6. OwnersCover(Above(Uncounted)') = OwnersCover(Above(Uncounted)) \cup BlockSpan(CallBlock(t))
  BY <1>1, <1>2, <1>3, <1>5, CallShown
<1>7. BlockSpan(CallBlock(t)) \cap OwnersCover(Above(Uncounted)) = {}
  BY <1>2, <1>5, HiddenApart DEF Memory
<1> QED BY <1>2, <1>3, <1>4, <1>6, <1>7 DEF CommittedOwners, CountedOwners, Above

(* When it counts one on its way down, the counted memory shrinks by       *)
(* exactly its addresses.                                                  *)
LEMMA StatsSubKeeps ==
  ASSUME Base, NEW t \in Threads, StatsSub(t)
  PROVE  /\ Base' /\ ptr[t] # nullptr /\ CallBlock(t) = <<ptr[t], want[t]>>
         /\ CommittedOwners' = CommittedOwners
         /\ OwnersCover(CountedOwners) = OwnersCover(CountedOwners') \cup BlockSpan(CallBlock(t))
         /\ OwnersCover(CountedOwners') \cap BlockSpan(CallBlock(t)) = {}
<1> USE DEF Base
<1>1. /\ pc[t] = "stats_sub" /\ pc' = [pc EXCEPT ![t] = "decommit"]
      /\ UNCHANGED <<mapped, writable, registered, large, small, live, want, ptr>>
  BY DEF StatsSub, os
<1>2. /\ ptr[t] # nullptr /\ pc[t] \in FreeSteps /\ "decommit" \in FreeSteps
      /\ writable' \subseteq mapped
  BY <1>1 DEF Control, AllocSteps, FreeSteps, Shapes
<1>3. /\ Base'
      /\ pc'[t] = "decommit" /\ \A u \in Threads \ {t} : pc'[u] = pc[u]
  BY <1>1, <1>2, PassesOn
<1>4. Above(Uncommitted)' = Above(Uncommitted)
  <2>1. pc[t] \notin Uncommitted /\ pc'[t] \notin Uncommitted
    BY <1>1, <1>3 DEF Uncommitted
  <2> QED BY <1>1, <1>2, <1>3, <2>1, CallShown
<1>5. pc[t] \notin Uncounted /\ pc'[t] \in Uncounted
  BY <1>1, <1>3 DEF Uncounted
<1>6. OwnersCover(Above(Uncounted)) = OwnersCover(Above(Uncounted)') \cup BlockSpan(CallBlock(t))
  BY <1>1, <1>2, <1>3, <1>5, CallShown
<1>7. BlockSpan(CallBlock(t)) \cap OwnersCover(Above(Uncounted)') = {}
  BY <1>1, <1>2, <1>3, <1>5, HidingApart DEF Memory
<1>8. CallBlock(t) = <<ptr[t], want[t]>>
  <2>1. want[t] \in 0 .. AddressBits - 1 /\ want[t] >= PageBits
    BY <1>2 DEF Control, Shapes
  <2> QED BY <2>1, BlockBitsAre DEF CallBlock
<1> QED BY <1>2, <1>3, <1>4, <1>6, <1>7, <1>8 DEF CommittedOwners, CountedOwners, Above

(* When commit_range decommits a block, the committed memory shrinks by    *)
(* exactly its addresses.                                                  *)
LEMMA DecommitKeeps ==
  ASSUME Base, NEW t \in Threads, Decommit(t)
  PROVE  /\ Base' /\ ptr[t] # nullptr /\ CallBlock(t) = <<ptr[t], want[t]>>
         /\ CountedOwners' = CountedOwners
         /\ OwnersCover(CommittedOwners) = OwnersCover(CommittedOwners') \cup BlockSpan(CallBlock(t))
         /\ OwnersCover(CommittedOwners') \cap BlockSpan(CallBlock(t)) = {}
<1> USE DEF Base
<1>1. /\ pc[t] = "decommit" /\ pc' = [pc EXCEPT ![t] = "lock_dealloc"]
      /\ UNCHANGED <<mapped, registered, large, small, live, want, ptr>>
      /\ writable' \subseteq mapped
  BY DEF Decommit, Shapes
<1>2. ptr[t] # nullptr /\ pc[t] \in FreeSteps /\ "lock_dealloc" \in FreeSteps
  BY <1>1 DEF Control, AllocSteps, FreeSteps, Shapes
<1>3. /\ Base'
      /\ pc'[t] = "lock_dealloc" /\ \A u \in Threads \ {t} : pc'[u] = pc[u]
  BY <1>1, <1>2, PassesOn
<1>4. Above(Uncounted)' = Above(Uncounted)
  <2>1. pc[t] \in Uncounted /\ pc'[t] \in Uncounted
    BY <1>1, <1>3 DEF Uncounted
  <2> QED BY <1>1, <1>2, <1>3, <2>1, CallShown
<1>5. pc[t] \notin Uncommitted /\ pc'[t] \in Uncommitted
  BY <1>1, <1>3 DEF Uncommitted
<1>6. OwnersCover(Above(Uncommitted)) = OwnersCover(Above(Uncommitted)') \cup BlockSpan(CallBlock(t))
  BY <1>1, <1>2, <1>3, <1>5, CallShown
<1>7. BlockSpan(CallBlock(t)) \cap OwnersCover(Above(Uncommitted)') = {}
  BY <1>1, <1>2, <1>3, <1>5, HidingApart DEF Memory
<1>8. CallBlock(t) = <<ptr[t], want[t]>>
  <2>1. want[t] \in 0 .. AddressBits - 1 /\ want[t] >= PageBits
    BY <1>2 DEF Control, Shapes
  <2> QED BY <2>1, BlockBitsAre DEF CallBlock
<1> QED BY <1>2, <1>3, <1>4, <1>6, <1>7, <1>8 DEF CommittedOwners, CountedOwners, Above

-----------------------------------------------------------------------------
(* The memory of the pipeline, whatever the threads interleave.            *)
QuietStep(t) ==
  \/ \E bits \in Sizes : SmallAllocate(t, bits) \/ Request(t, bits)
  \/ \E blk \in live : SmallDeallocate(t, blk) \/ Release(t, blk)
  \/ LargeAllocate(t) \/ PeakLoad(t) \/ PeakExchange(t) \/ Return(t)
  \/ LargeDeallocate(t) \/ Exit(t)

(* A step is a refill, a step of commit_range or stats_range on memory     *)
(* they answer for, or a quiet one.                                        *)
LEMMA NextIs ==
  ASSUME Next
  PROVE  \E t \in Threads :
           \/ QuietStep(t) \/ LargeRefill(t) \/ Commit(t) \/ StatsAdd(t) \/ StatsSub(t) \/ Decommit(t)
BY DEF Next, Step, QuietStep

(* A quiet step moves no memory past commit_range or stats_range.          *)
LEMMA QuietKeeps ==
  ASSUME Base, NEW t \in Threads, QuietStep(t)
  PROVE  Base' /\ MemoryKept /\ UNCHANGED <<mapped, writable, registered, usage, highest>>
<1>1. ASSUME NEW bits \in Sizes, SmallAllocate(t, bits)
      PROVE  Base' /\ MemoryKept /\ UNCHANGED <<mapped, writable, registered, usage, highest>>
  <2>1. UNCHANGED <<mapped, writable, registered, usage, highest>>
    BY <1>1 DEF SmallAllocate, os, stats
  <2> QED BY <1>1, <2>1, SmallAllocateKeeps
<1>2. ASSUME NEW bits \in Sizes, Request(t, bits)
      PROVE  Base' /\ MemoryKept /\ UNCHANGED <<mapped, writable, registered, usage, highest>>
  <2>1. UNCHANGED <<mapped, writable, registered, usage, highest>>
    BY <1>2 DEF Request, os, stats
  <2> QED BY <1>2, <2>1, RequestKeeps
<1>3. ASSUME NEW blk \in live, SmallDeallocate(t, blk)
      PROVE  Base' /\ MemoryKept /\ UNCHANGED <<mapped, writable, registered, usage, highest>>
  <2>1. UNCHANGED <<mapped, writable, registered, usage, highest>>
    BY <1>3 DEF SmallDeallocate, os, stats
  <2> QED BY <1>3, <2>1, SmallDeallocateKeeps
<1>4. ASSUME NEW blk \in live, Release(t, blk)
      PROVE  Base' /\ MemoryKept /\ UNCHANGED <<mapped, writable, registered, usage, highest>>
  <2>1. UNCHANGED <<mapped, writable, registered, usage, highest>>
    BY <1>4 DEF Release, os, stats
  <2> QED BY <1>4, <2>1, ReleaseKeeps
<1>5. ASSUME LargeAllocate(t)
      PROVE  Base' /\ MemoryKept /\ UNCHANGED <<mapped, writable, registered, usage, highest>>
  <2>1. UNCHANGED <<mapped, writable, registered, usage, highest>>
    BY <1>5 DEF LargeAllocate, os, stats
  <2> QED BY <1>5, <2>1, LargeAllocateKeeps
<1>6. ASSUME PeakLoad(t) \/ PeakExchange(t)
      PROVE  Base' /\ MemoryKept /\ UNCHANGED <<mapped, writable, registered, usage, highest>>
  <2>1. UNCHANGED <<usage, highest>>
    BY <1>6 DEF PeakLoad, PeakExchange, stats
  <2> QED BY <1>6, <2>1, PeakKeeps
<1>7. ASSUME Return(t)
      PROVE  Base' /\ MemoryKept /\ UNCHANGED <<mapped, writable, registered, usage, highest>>
  <2>1. UNCHANGED <<mapped, writable, registered, usage, highest>>
    BY <1>7 DEF Return, os, stats
  <2> QED BY <1>7, <2>1, ReturnKeeps
<1>8. ASSUME LargeDeallocate(t)
      PROVE  Base' /\ MemoryKept /\ UNCHANGED <<mapped, writable, registered, usage, highest>>
  <2>1. UNCHANGED <<mapped, writable, registered, usage, highest>>
    BY <1>8 DEF LargeDeallocate, os, stats
  <2> QED BY <1>8, <2>1, LargeDeallocateKeeps
<1>9. ASSUME Exit(t)
      PROVE  Base' /\ MemoryKept /\ UNCHANGED <<mapped, writable, registered, usage, highest>>
  <2>1. UNCHANGED <<mapped, writable, registered, usage, highest>>
    BY <1>9 DEF Exit, os, stats
  <2> QED BY <1>9, <2>1, ExitKeeps
<1> QED BY <1>1, <1>2, <1>3, <1>4, <1>5, <1>6, <1>7, <1>8, <1>9 DEF QuietStep

(* Nor does a step in which nothing changes.                               *)
LEMMA StutterKeeps ==
  ASSUME Base, UNCHANGED vars
  PROVE  Base' /\ MemoryKept /\ UNCHANGED <<mapped, writable, registered, usage, highest>>
<1>1. UNCHANGED <<mapped, writable, registered, large, small, usage, highest, live, pc, want, ptr>>
  BY DEF vars
<1>2. \A H : \A u \in Threads : CallOf(u, H)' = CallOf(u, H)
  BY <1>1 DEF CallOf, CallBlock
<1>3. MemoryKept
  BY <1>1, <1>2, SameOwners
<1>4. Memory'
  BY <1>1, <1>3, MemoryStays DEF Base
<1>5. Shapes' /\ Control' /\ Placed' /\ Exhausted'
  BY <1>1 DEF Base, Shapes, Control, Placed, Exhausted, SmallBlocks, FreeInLarge, BlockBits
<1> QED BY <1>1, <1>3, <1>4, <1>5 DEF Base

(* Every step keeps the base of the invariant.                             *)
LEMMA BaseStep ==
  ASSUME Base, FailuresUnmapNothing, [Next]_vars
  PROVE  Base'
<1>1. CASE UNCHANGED vars
  BY <1>1, StutterKeeps
<1>2. ASSUME NEW t \in Threads,
             \/ QuietStep(t) \/ LargeRefill(t) \/ Commit(t) \/ StatsAdd(t) \/ StatsSub(t) \/ Decommit(t)
      PROVE  Base'
  <2>1. CASE QuietStep(t)
    BY <2>1, QuietKeeps
  <2>2. CASE LargeRefill(t)
    BY <2>2, LargeRefillKeeps
  <2>3. CASE Commit(t)
    BY <2>3, CommitKeeps
  <2>4. CASE StatsAdd(t)
    BY <2>4, StatsAddKeeps
  <2>5. CASE StatsSub(t)
    BY <2>5, StatsSubKeeps
  <2>6. CASE Decommit(t)
    BY <2>6, DecommitKeeps
  <2> QED BY <1>2, <2>1, <2>2, <2>3, <2>4, <2>5, <2>6
<1> QED BY <1>1, <1>2, NextIs

(* At first nobody owns anything.                                          *)
LEMMA NothingOwned ==
  ASSUME Init
  PROVE  /\ \A t \in Threads : SmallBlocks(t) = {}
         /\ AllOwners = {} /\ CommittedOwners = {} /\ CountedOwners = {}
<1>1. \A t : Small!FreeBlocks(Small!EmptyTrees) = {} /\ Large!FreeBlocks(Large!EmptyTrees) = {}
  BY DEF Small!FreeBlocks, Small!EmptyTrees, Large!FreeBlocks, Large!EmptyTrees
<1>2. \A t \in Threads : SmallBlocks(t) = {}
  BY <1>1 DEF Init, SmallBlocks
<1>3. FreeInSmall = {} /\ FreeInLarge = {} /\ live = {}
  BY <1>1, <1>2 DEF Init, FreeInSmall, FreeInLarge, Of
<1>4. \A t \in Threads : \A H : CallOf(t, H) = {}
  BY DEF Init, CallOf
<1>5. \A H : Calls(H) = {}
  BY <1>4 DEF Calls
<1>6. Owners({}, {}, {}, {}) = {}
  BY DEF Owners
<1> QED BY <1>2, <1>3, <1>5, <1>6 DEF AllOwners, CommittedOwners, CountedOwners

(* The base of the invariant holds at first.                               *)
LEMMA BaseInit ==
  ASSUME Init
  PROVE  Base
<1>1. /\ \A t \in Threads : SmallBlocks(t) = {}
      /\ AllOwners = {}
  BY NothingOwned
<1>2. Shapes
  <2>1. 0 \in 0 .. AddressBits - 1 /\ nullptr \in Nat
    BY SizesAre DEF nullptr
  <2>2. Large!EmptyTrees \in [Large!BlockBits -> SUBSET Nat] /\ Small!EmptyTrees \in [Small!BlockBits -> SUBSET Nat]
    BY DEF Large!EmptyTrees, Small!EmptyTrees
  <2> QED BY <2>1, <2>2 DEF Init, Shapes, Steps
<1>3. Control /\ Exhausted
  BY DEF Init, Control, Exhausted, AllocSteps, FreeSteps
<1>4. Placed
  <2>1. \A t \in Threads : Merged(small[t])
    BY DEF Init, Merged, Small!EmptyTrees
  <2>2. FreeInLarge = {} /\ live = {}
    BY DEF Init, FreeInLarge, Large!FreeBlocks, Large!EmptyTrees
  <2> QED BY <1>1, <2>1, <2>2 DEF Placed, AllAligned
<1>5. Memory
  <2>1. mapped = {}
    BY DEF Init
  <2> QED BY <1>1, <2>1 DEF Memory, OwnersApart, OwnersCover, AddressesOf
<1> QED BY <1>2, <1>3, <1>4, <1>5 DEF Base

(* Every block of mapped memory has one owner.                              *)
THEOREM BaseHolds == FailuresUnmapNothing /\ Spec => []Base
<1> SUFFICES ASSUME FailuresUnmapNothing PROVE Spec => []Base
  OBVIOUS
<1>1. Init => Base
  BY BaseInit
<1>2. Base /\ [Next]_vars => Base'
  BY BaseStep
<1> QED BY <1>1, <1>2, PTL DEF Spec

(* No block is free and held, free in two trees, or handed out twice: of   *)
(* the callers, the trees and the calls under way, no two have an address   *)
(* in common.                                                               *)
THEOREM OneOwnerHolds == FailuresUnmapNothing /\ Spec => []OneOwner
<1>1. Base => OneOwner
  <2> SUFFICES ASSUME Base PROVE OneOwner
    OBVIOUS
  <2>1. Owned = AllOwners
    BY OwnedIs DEF Base
  <2> QED BY <2>1 DEF Base, Memory, OwnersApart, OneOwner
<1> QED BY <1>1, BaseHolds, PTL

(* Whatever calls fail, threads exit and blocks are freed by others, every  *)
(* mapped address is in a block that a caller, a tree or a call has.        *)
THEOREM NothingLostHolds == FailuresUnmapNothing /\ Spec => []NothingLost
<1>1. Base => NothingLost
  <2> SUFFICES ASSUME Base PROVE NothingLost
    OBVIOUS
  <2>1. Owned = AllOwners
    BY OwnedIs DEF Base
  <2>2. UNION {OwnedSpan(own) : own \in Owned} = {a \in Nat : a \div PageSize \in mapped}
    BY <2>1 DEF Base, Memory, OwnersCover, AddressesOf
  <2>3. PICK s \in Nat : s = 2 ^ AddressBits
    BY SizesAre, Pow2Pos
  <2>4. \A a \in Nat : a \div PageSize \in mapped => a \in 0 .. s - 1
    <3>1. \A a \in Nat : a \div PageSize \in mapped => a < 2 ^ AddressBits
      BY MmapPagesAre DEF Base, Shapes
    <3> QED BY <2>3, <3>1
  <2>5. {a \in Nat : a \div PageSize \in mapped} = {a \in 0 .. s - 1 : a \div PageSize \in mapped}
    BY <2>4
  <2> QED BY <2>2, <2>3, <2>5 DEF NothingLost
<1> QED BY <1>1, BaseHolds, PTL

(* A block of an owner lies in mapped pages.                                *)
LEMMA PagesOfOwner ==
  ASSUME Base, NEW own \in AllOwners, NEW addr \in Nat, NEW bits \in Nat,
         OwnedSpan(own) = Span(addr, bits)
  PROVE  PagesOf(addr, bits) \subseteq mapped
<1>1. ASSUME NEW page \in PagesOf(addr, bits) PROVE page \in mapped
  <2>1. PICK a \in Span(addr, bits) : a \div PageSize = page
    BY AddressInPage
  <2>2. a \in OwnersCover(AllOwners)
    BY DEF OwnersCover
  <2> QED BY <2>1, <2>2 DEF Base, Memory, AddressesOf
<1> QED BY <1>1

(* What a caller holds stays mapped.                                        *)
THEOREM HeldIsMappedHolds == FailuresUnmapNothing /\ Spec => []HeldIsMapped
<1>1. Base => HeldIsMapped
  <2> SUFFICES ASSUME Base, NEW blk \in live PROVE PagesOf(blk[1], blk[2]) \subseteq mapped
    BY DEF HeldIsMapped
  <2>1. blk[1] \in Nat /\ blk[2] \in Nat
    BY SizesAre DEF Base, Shapes
  <2>2. <<"caller", blk>> \in AllOwners
    BY DEF AllOwners, Owners
  <2>3. OwnedSpan(<<"caller", blk>>) = Span(blk[1], blk[2])
    BY OwnerSpans DEF BlockSpan
  <2> QED BY <2>1, <2>2, <2>3, PagesOfOwner
<1> QED BY <1>1, BaseHolds, PTL

-----------------------------------------------------------------------------
(* Memory that can be written to: where mprotect does not fail, exactly the *)
(* memory above commit_range.                                               *)
Guarded ==
  ~MprotectFails => /\ OwnersCover(CommittedOwners) = AddressesOf(writable)
                    /\ mapped \subseteq registered

(* The pages of the block a call has are mapped, and hold that block only. *)
LEMMA CallPages ==
  ASSUME Base, NEW t \in Threads, ptr[t] # nullptr
  PROVE  /\ PagesOf(ptr[t], BlockBits(want[t])) \subseteq mapped
         /\ AddressesOf(PagesOf(ptr[t], BlockBits(want[t]))) = BlockSpan(CallBlock(t))
<1>1. /\ ptr[t] \in Nat /\ want[t] \in 0 .. AddressBits - 1
      /\ Aligned(ptr[t], BlockBits(want[t]))
  BY DEF Base, Shapes, Control
<1>2. BlockBits(want[t]) \in Nat /\ PageBits <= BlockBits(want[t])
  BY <1>1, BlockBitsAre
<1>3. AddressesOf(PagesOf(ptr[t], BlockBits(want[t]))) = BlockSpan(CallBlock(t))
  BY <1>1, <1>2, AddressesOfBlock DEF CallBlock
<1>4. <<"call", t, CallBlock(t)>> \in AllOwners
  BY CallIsOwner
<1>5. OwnedSpan(<<"call", t, CallBlock(t)>>) = Span(ptr[t], BlockBits(want[t]))
  BY OwnerSpans DEF BlockSpan, CallBlock
<1>6. PagesOf(ptr[t], BlockBits(want[t])) \subseteq mapped
  BY <1>1, <1>2, <1>4, <1>5, PagesOfOwner
<1> QED BY <1>3, <1>6

(* Every step keeps the writable pages those above commit_range, where     *)
(* mprotect does not fail.                                                 *)
LEMMA GuardedStep ==
  ASSUME Base, Guarded, FailuresUnmapNothing, [Next]_vars
  PROVE  Guarded'
<1> SUFFICES ASSUME ~MprotectFails
             PROVE  OwnersCover(CommittedOwners') = AddressesOf(writable') /\ mapped' \subseteq registered'
  BY DEF Guarded, AddressesOf, OwnersCover
<1>1. OwnersCover(CommittedOwners) = AddressesOf(writable) /\ mapped \subseteq registered
  BY DEF Guarded
<1> DEFINE Goal == OwnersCover(CommittedOwners') = AddressesOf(writable') /\ mapped' \subseteq registered'
<1>2. ASSUME MemoryKept, UNCHANGED <<mapped, writable, registered>> PROVE Goal
  BY <1>1, <1>2 DEF MemoryKept
<1>3. CASE UNCHANGED vars
  BY <1>2, <1>3, StutterKeeps
<1>4. ASSUME NEW t \in Threads,
             \/ QuietStep(t) \/ LargeRefill(t) \/ Commit(t) \/ StatsAdd(t) \/ StatsSub(t) \/ Decommit(t)
      PROVE  Goal
  <2>1. CASE QuietStep(t)
    BY <1>2, <2>1, QuietKeeps
  <2>2. CASE LargeRefill(t)
    <3>1. /\ Above(Uncommitted)' = Above(Uncommitted) /\ writable' = writable
          /\ mapped' \subseteq registered'
      BY <1>1, <2>2, LargeRefillKeeps
    <3> QED BY <1>1, <3>1 DEF CommittedOwners, Above
  <2>3. CASE Commit(t)
    <3>1. /\ ptr[t] # nullptr
          /\ OwnersCover(CommittedOwners') = OwnersCover(CommittedOwners) \cup BlockSpan(CallBlock(t))
      BY <2>3, CommitKeeps
    <3>2. /\ writable' = writable \cup (PagesOf(ptr[t], BlockBits(want[t])) \cap mapped)
          /\ mapped' = mapped /\ registered' = registered
      BY <2>3 DEF Commit
    <3>3. /\ PagesOf(ptr[t], BlockBits(want[t])) \subseteq mapped
          /\ AddressesOf(PagesOf(ptr[t], BlockBits(want[t]))) = BlockSpan(CallBlock(t))
      BY <3>1, CallPages
    <3>4. writable' = writable \cup PagesOf(ptr[t], BlockBits(want[t]))
      BY <3>2, <3>3
    <3>5. AddressesOf(writable') = AddressesOf(writable) \cup BlockSpan(CallBlock(t))
      BY <3>3, <3>4, AddressesTogether
    <3> QED BY <1>1, <3>1, <3>2, <3>5
  <2>4. CASE StatsAdd(t)
    <3>1. CommittedOwners' = CommittedOwners
      BY <2>4, StatsAddKeeps
    <3>2. UNCHANGED <<mapped, writable, registered>>
      BY <2>4 DEF StatsAdd, os
    <3> QED BY <1>1, <3>1, <3>2
  <2>5. CASE StatsSub(t)
    <3>1. CommittedOwners' = CommittedOwners
      BY <2>5, StatsSubKeeps
    <3>2. UNCHANGED <<mapped, writable, registered>>
      BY <2>5 DEF StatsSub, os
    <3> QED BY <1>1, <3>1, <3>2
  <2>6. CASE Decommit(t)
    <3>1. /\ ptr[t] # nullptr /\ CallBlock(t) = <<ptr[t], want[t]>>
          /\ OwnersCover(CommittedOwners) = OwnersCover(CommittedOwners') \cup BlockSpan(CallBlock(t))
          /\ OwnersCover(CommittedOwners') \cap BlockSpan(CallBlock(t)) = {}
      BY <2>6, DecommitKeeps
    <3>2. /\ writable' = writable \ PagesOf(ptr[t], want[t])
          /\ mapped' = mapped /\ registered' = registered
      BY <2>6 DEF Decommit
    <3>3. AddressesOf(PagesOf(ptr[t], want[t])) = BlockSpan(CallBlock(t))
      <4>1. BlockBits(want[t]) = want[t]
        BY <3>1 DEF CallBlock
      <4>2. AddressesOf(PagesOf(ptr[t], BlockBits(want[t]))) = BlockSpan(CallBlock(t))
        BY <3>1, CallPages
      <4> QED BY <4>1, <4>2
    <3>4. AddressesOf(writable') = AddressesOf(writable) \ BlockSpan(CallBlock(t))
      BY <3>2, <3>3, AddressesTogether
    <3>5. OwnersCover(CommittedOwners') = AddressesOf(writable')
      BY <1>1, <3>1, <3>4
    <3> QED BY <1>1, <3>2, <3>5
  <2> QED BY <1>4, <2>1, <2>2, <2>3, <2>4, <2>5, <2>6
<1> QED BY <1>3, <1>4, NextIs

(* So they are in every state.                                             *)
LEMMA GuardedHolds == FailuresUnmapNothing /\ Spec => []Guarded
<1> SUFFICES ASSUME FailuresUnmapNothing PROVE Spec => []Guarded
  OBVIOUS
<1>1. Init => Guarded
  <2>1. Init => OwnersCover(CommittedOwners) = {} /\ mapped = {} /\ writable = {}
    BY NothingOwned DEF Init, OwnersCover
  <2> QED BY <2>1 DEF Guarded, AddressesOf
<1>2. Base /\ Guarded /\ [Next]_vars => Guarded'
  BY GuardedStep
<1>3. Spec => []Base
  BY BaseHolds
<1> QED BY <1>1, <1>2, <1>3, PTL DEF Spec

(* The large buddy's blocks are below commit_range and stats_range.        *)
LEMMA AboveLarge ==
  /\ CommittedOwners \subseteq AllOwners /\ CountedOwners \subseteq AllOwners
  /\ \A own \in CommittedOwners \cup CountedOwners : own[1] # "large"
<1>1. ASSUME NEW H PROVE Calls(H) \subseteq Calls({})
  <2>1. \A t \in Threads : CallOf(t, H) \subseteq CallOf(t, {})
    BY DEF CallOf
  <2> QED BY <2>1 DEF Calls
<1>2. ASSUME NEW H, NEW own \in Above(H) PROVE own \in AllOwners /\ own[1] # "large"
  <2>1. own \in Owners(live, FreeInSmall, {}, Calls(H))
    BY DEF Above
  <2>2. own[1] # "large"
    BY <2>1, OwnersMember
  <2>3. own \in Owners(live, FreeInSmall, FreeInLarge, Calls({}))
    BY <1>1, <2>1, OwnersMember
  <2> QED BY <2>2, <2>3 DEF AllOwners
<1>3. CommittedOwners = Above(Uncommitted) /\ CountedOwners = Above(Uncounted)
  BY DEF Above, CommittedOwners, CountedOwners
<1> QED BY <1>2, <1>3

(* Where mprotect does not fail, what a caller holds can be written to, and *)
(* so can the tree nodes of the small buddies, which are inside their free  *)
(* blocks.                                                                  *)
THEOREM HeldIsWritableHolds ==
  FailuresUnmapNothing /\ ~MprotectFails /\ Spec => []HeldIsWritable
<1> SUFFICES ASSUME FailuresUnmapNothing, ~MprotectFails PROVE Spec => []HeldIsWritable
  OBVIOUS
<1>1. Base /\ Guarded => HeldIsWritable
  <2> SUFFICES ASSUME Base, Guarded,
                      NEW blk \in live \cup (UNION {SmallBlocks(t) : t \in Threads})
               PROVE  PagesOf(blk[1], blk[2]) \subseteq writable
    BY DEF HeldIsWritable
  <2>1. PICK own \in CommittedOwners : OwnedSpan(own) = BlockSpan(blk)
    <3>1. CASE blk \in live
      <4>1. <<"caller", blk>> \in CommittedOwners
        BY <3>1 DEF CommittedOwners, Owners
      <4> QED BY <4>1, OwnerSpans
    <3>2. CASE \E t \in Threads : blk \in SmallBlocks(t)
      <4>1. PICK t \in Threads : blk \in SmallBlocks(t)
        BY <3>2
      <4>2. <<t, blk>> \in FreeInSmall /\ <<t, blk>>[1] = t /\ <<t, blk>>[2] = blk
        BY <4>1 DEF FreeInSmall, Of
      <4>3. <<"small", t, blk>> \in CommittedOwners
        BY <4>2 DEF CommittedOwners, Owners
      <4> QED BY <4>3, OwnerSpans
    <3> QED BY <3>1, <3>2
  <2>2. blk[1] \in Nat /\ blk[2] \in Nat
    <3>1. CASE blk \in live
      BY <3>1, SizesAre DEF Base, Shapes
    <3>2. CASE \E t \in Threads : blk \in SmallBlocks(t)
      BY <3>2, PairsOfThreads DEF Base
    <3> QED BY <3>1, <3>2
  <2>3. BlockSpan(blk) \subseteq AddressesOf(writable)
    BY <2>1 DEF Guarded, OwnersCover
  <2>4. ASSUME NEW page \in PagesOf(blk[1], blk[2]) PROVE page \in writable
    <3>1. PICK a \in Span(blk[1], blk[2]) : a \div PageSize = page
      BY <2>2, AddressInPage
    <3> QED BY <2>3, <3>1 DEF BlockSpan, AddressesOf
  <2> QED BY <2>4
<1>2. Spec => []Base
  BY BaseHolds
<1>3. Spec => []Guarded
  BY GuardedHolds
<1> QED BY <1>1, <1>2, <1>3, PTL

(* Free memory of the large buddy has been given back, and its nodes are in *)
(* entries of the pagemap that are committed.                               *)
THEOREM LargeIsDecommittedHolds ==
  FailuresUnmapNothing /\ ~MprotectFails /\ Spec => []LargeIsDecommitted
<1> SUFFICES ASSUME FailuresUnmapNothing, ~MprotectFails PROVE Spec => []LargeIsDecommitted
  OBVIOUS
<1>1. Base /\ Guarded => LargeIsDecommitted
  <2> SUFFICES ASSUME Base, Guarded, NEW blk \in FreeInLarge
               PROVE  /\ PagesOf(blk[1], blk[2]) \cap writable = {}
                      /\ blk[1] \div PageSize \in registered
    BY DEF LargeIsDecommitted, FreeInLarge
  <2>1. blk[1] \in Nat /\ blk[2] \in Nat
    BY PairsOfThreads DEF Base
  <2>2. PICK mine : mine = <<"large", blk>>
    OBVIOUS
  <2>3. mine \in AllOwners /\ OwnedSpan(mine) = Span(blk[1], blk[2]) /\ mine[1] = "large"
    BY <2>2, OwnerSpans DEF AllOwners, Owners, BlockSpan
  <2>4. ASSUME NEW page \in PagesOf(blk[1], blk[2]), page \in writable PROVE FALSE
    <3>1. PICK a \in Span(blk[1], blk[2]) : a \div PageSize = page
      BY <2>1, AddressInPage
    <3>2. a \in Nat
      BY <2>1, SpanIs
    <3>3. a \in OwnersCover(CommittedOwners)
      BY <2>4, <3>1, <3>2 DEF Guarded, AddressesOf
    <3>4. PICK own \in CommittedOwners : a \in OwnedSpan(own)
      BY <3>3 DEF OwnersCover
    <3>5. own \in AllOwners /\ own[1] # "large"
      BY AboveLarge
    <3> QED BY <2>3, <3>1, <3>4, <3>5 DEF Base, Memory, OwnersApart
  <2>5. blk[1] \div PageSize \in registered
    <3>1. blk[1] \in Span(blk[1], blk[2])
      BY <2>1, SpanIs
    <3>2. blk[1] \in OwnersCover(AllOwners)
      BY <2>3, <3>1 DEF OwnersCover
    <3> QED BY <3>2 DEF Base, Memory, AddressesOf, Guarded
  <2> QED BY <2>4, <2>5
<1>2. Spec => []Base
  BY BaseHolds
<1>3. Spec => []Guarded
  BY GuardedHolds
<1> QED BY <1>1, <1>2, <1>3, PTL

-----------------------------------------------------------------------------
(* The statistics.                                                         *)
Usage == usage = Cardinality(OwnersCover(CountedOwners))

(* Each maximum reaches the peak, or a thread that has it is on its way.    *)
Peaks ==
  /\ {peak, highest} \subseteq Nat /\ {cur_usage, pu} \subseteq [Threads -> Nat]
  /\ peak <= highest /\ usage <= highest
  /\ \A t \in Threads : pc[t] \in {"peak_load", "peak_cas"} => cur_usage[t] <= highest
  /\ \A t \in Threads : pc[t] = "peak_cas" => pu[t] < cur_usage[t]
  /\ \/ peak = highest
     \/ \E t \in Threads : pc[t] \in {"peak_load", "peak_cas"} /\ cur_usage[t] = highest

(* The counted memory is finite, so it has a size.                         *)
LEMMA CountedFinite ==
  ASSUME Base
  PROVE  IsFiniteSet(OwnersCover(CountedOwners))
<1>1. PICK s \in Nat \ {0} : s = 2 ^ AddressBits
  BY SizesAre, Pow2Pos
<1>2. OwnersCover(CountedOwners) \subseteq AddressesOf(mapped)
  BY AboveLarge DEF Base, Memory, OwnersCover
<1>3. \A a \in Nat : a \div PageSize \in MmapPages => a < 2 ^ AddressBits
  BY MmapPagesAre
<1>4. OwnersCover(CountedOwners) \in SUBSET (0 .. s - 1)
  BY <1>1, <1>2, <1>3 DEF AddressesOf, Base, Shapes
<1>5. IsFiniteSet(0 .. s - 1)
  BY FS_Interval
<1> QED BY <1>4, <1>5, FS_Subset

(* A block of 2^bits addresses has that many.                              *)
LEMMA SpanSize ==
  ASSUME NEW addr \in Nat, NEW bits \in Nat
  PROVE  IsFiniteSet(Span(addr, bits)) /\ Cardinality(Span(addr, bits)) = 2 ^ bits
<1>1. PICK s \in Nat \ {0} : s = 2 ^ bits
  BY Pow2Pos
<1>2. Span(addr, bits) = addr .. addr + s - 1
  BY <1>1 DEF Span
<1>3. addr \in Int /\ addr + s - 1 \in Int
  OBVIOUS
<1>4. /\ IsFiniteSet(addr .. addr + s - 1)
      /\ Cardinality(addr .. addr + s - 1)
           = IF addr > addr + s - 1 THEN 0 ELSE (addr + s - 1) - addr + 1
  BY <1>3, FS_Interval
<1> QED BY <1>1, <1>2, <1>4

(* The sizes of two sets that are apart add up.                            *)
LEMMA CountTogether ==
  ASSUME NEW A, NEW B, IsFiniteSet(A), IsFiniteSet(B), A \cap B = {}
  PROVE  /\ Cardinality(A \cup B) = Cardinality(A) + Cardinality(B)
         /\ Cardinality(A) \in Nat /\ Cardinality(B) \in Nat
<1>1. Cardinality(A) \in Nat /\ Cardinality(B) \in Nat
  BY FS_CardinalityType
<1>2. Cardinality(A \cup B) = Cardinality(A) + Cardinality(B) - Cardinality(A \cap B)
  BY FS_Union
<1>3. Cardinality(A \cap B) = 0
  BY FS_EmptySet
<1> QED BY <1>1, <1>2, <1>3

(* Every step keeps current_usage equal to the memory above stats_range.   *)
LEMMA UsageStep ==
  ASSUME Base, Usage, FailuresUnmapNothing, [Next]_vars
  PROVE  Usage'
<1> SUFFICES usage' = Cardinality(OwnersCover(CountedOwners'))
  BY DEF Usage, OwnersCover
<1>1. usage = Cardinality(OwnersCover(CountedOwners))
  BY DEF Usage
<1> DEFINE Goal == usage' = Cardinality(OwnersCover(CountedOwners'))
<1>2. CASE UNCHANGED vars
  BY <1>1, <1>2, StutterKeeps DEF MemoryKept
<1>3. ASSUME NEW t \in Threads,
             \/ QuietStep(t) \/ LargeRefill(t) \/ Commit(t) \/ StatsAdd(t) \/ StatsSub(t) \/ Decommit(t)
      PROVE  Goal
  <2>1. CASE QuietStep(t)
    BY <1>1, <2>1, QuietKeeps DEF MemoryKept
  <2>2. CASE LargeRefill(t)
    <3>1. Above(Uncounted)' = Above(Uncounted) /\ usage' = usage
      BY <2>2, LargeRefillKeeps DEF LargeRefill, stats
    <3> QED BY <1>1, <3>1 DEF CountedOwners, Above
  <2>3. CASE Commit(t)
    <3>1. CountedOwners' = CountedOwners /\ usage' = usage
      BY <2>3, CommitKeeps DEF Commit, stats
    <3> QED BY <1>1, <3>1
  <2>4. CASE StatsAdd(t)
    <3>1. /\ ptr[t] # nullptr
          /\ OwnersCover(CountedOwners') = OwnersCover(CountedOwners) \cup BlockSpan(CallBlock(t))
          /\ OwnersCover(CountedOwners) \cap BlockSpan(CallBlock(t)) = {}
      BY <2>4, StatsAddKeeps
    <3>2. usage' = usage + 2 ^ BlockBits(want[t])
      BY <2>4 DEF StatsAdd
    <3>3. ptr[t] \in Nat /\ BlockBits(want[t]) \in Nat
      BY BlockBitsAre DEF Base, Shapes
    <3>4. BlockSpan(CallBlock(t)) = Span(ptr[t], BlockBits(want[t]))
      BY DEF BlockSpan, CallBlock
    <3>5. IsFiniteSet(BlockSpan(CallBlock(t))) /\ Cardinality(BlockSpan(CallBlock(t))) = 2 ^ BlockBits(want[t])
      BY <3>3, <3>4, SpanSize
    <3>6. Cardinality(OwnersCover(CountedOwners) \cup BlockSpan(CallBlock(t)))
            = Cardinality(OwnersCover(CountedOwners)) + Cardinality(BlockSpan(CallBlock(t)))
      BY <3>1, <3>5, CountedFinite, CountTogether
    <3> QED BY <1>1, <3>1, <3>2, <3>5, <3>6
  <2>5. CASE StatsSub(t)
    <3>1. /\ ptr[t] # nullptr /\ CallBlock(t) = <<ptr[t], want[t]>>
          /\ OwnersCover(CountedOwners) = OwnersCover(CountedOwners') \cup BlockSpan(CallBlock(t))
          /\ OwnersCover(CountedOwners') \cap BlockSpan(CallBlock(t)) = {}
      BY <2>5, StatsSubKeeps
    <3>2. usage' = usage - 2 ^ want[t]
      BY <2>5 DEF StatsSub
    <3>3. ptr[t] \in Nat /\ want[t] \in Nat
      BY SizesAre DEF Base, Shapes
    <3>4. BlockSpan(CallBlock(t)) = Span(ptr[t], want[t])
      BY <3>1 DEF BlockSpan
    <3>5. IsFiniteSet(BlockSpan(CallBlock(t))) /\ Cardinality(BlockSpan(CallBlock(t))) = 2 ^ want[t]
      BY <3>3, <3>4, SpanSize
    <3>6. IsFiniteSet(OwnersCover(CountedOwners'))
      BY <3>1, CountedFinite, FS_Subset
    <3>7. /\ Cardinality(OwnersCover(CountedOwners') \cup BlockSpan(CallBlock(t)))
               = Cardinality(OwnersCover(CountedOwners')) + Cardinality(BlockSpan(CallBlock(t)))
          /\ Cardinality(OwnersCover(CountedOwners')) \in Nat /\ Cardinality(BlockSpan(CallBlock(t))) \in Nat
      BY <3>1, <3>5, <3>6, CountTogether
    <3>8. PICK n, k, c : /\ n = 2 ^ want[t] /\ k = Cardinality(OwnersCover(CountedOwners'))
                         /\ c = Cardinality(BlockSpan(CallBlock(t)))
      OBVIOUS
    <3>9. usage = k + c /\ c = n /\ usage' = usage - n /\ k \in Nat /\ c \in Nat
      BY <1>1, <3>1, <3>2, <3>5, <3>7, <3>8
    <3>10. usage' = k
      BY <3>9
    <3> QED BY <3>8, <3>10
  <2>6. CASE Decommit(t)
    <3>1. CountedOwners' = CountedOwners /\ usage' = usage
      BY <2>6, DecommitKeeps DEF Decommit, stats
    <3> QED BY <1>1, <3>1
  <2> QED BY <1>3, <2>1, <2>2, <2>3, <2>4, <2>5, <2>6
<1> QED BY <1>2, <1>3, NextIs

(* So it is in every state.                                                *)
LEMMA UsageHolds == FailuresUnmapNothing /\ Spec => []Usage
<1> SUFFICES ASSUME FailuresUnmapNothing PROVE Spec => []Usage
  OBVIOUS
<1>1. Init => Usage
  <2>1. Init => usage = 0 /\ OwnersCover(CountedOwners) = {}
    BY NothingOwned DEF Init, OwnersCover
  <2> QED BY <2>1, FS_EmptySet DEF Usage
<1>2. Base /\ Usage /\ [Next]_vars => Usage'
  BY UsageStep
<1>3. Spec => []Base
  BY BaseHolds
<1> QED BY <1>1, <1>2, <1>3, PTL DEF Spec

(* A step of a thread that is not at the peak leaves it alone.              *)
PeakSteps == {"peak_load", "peak_cas"}

PeakAside(t) ==
  /\ pc[t] \notin PeakSteps /\ pc'[t] \notin PeakSteps
  /\ UNCHANGED <<peak, highest>>
  /\ {cur_usage', pu'} \subseteq [Threads -> Nat]
  /\ \A u \in Threads \ {t} : pc'[u] = pc[u] /\ cur_usage'[u] = cur_usage[u] /\ pu'[u] = pu[u]

(* A step aside from the peak that does not raise the usage keeps the      *)
(* invariant of the peak.                                                  *)
LEMMA PeaksAside ==
  ASSUME Peaks, NEW t \in Threads, PeakAside(t), usage' <= highest
  PROVE  Peaks'
<1> USE DEF Peaks, PeakAside, PeakSteps
<1>1. \A u \in Threads : pc'[u] \in {"peak_load", "peak_cas"} =>
        u # t /\ pc[u] = pc'[u] /\ cur_usage'[u] = cur_usage[u] /\ pu'[u] = pu[u]
  OBVIOUS
<1>2. \A u \in Threads : pc[u] \in {"peak_load", "peak_cas"} =>
        pc[u] = pc'[u] /\ cur_usage'[u] = cur_usage[u]
  OBVIOUS
<1>3. {peak, highest}' \subseteq Nat /\ {cur_usage, pu}' \subseteq [Threads -> Nat]
  OBVIOUS
<1>4. peak' <= highest' /\ usage' <= highest'
  OBVIOUS
<1>5. \A u \in Threads : pc'[u] \in {"peak_load", "peak_cas"} => cur_usage'[u] <= highest'
  BY <1>1
<1>6. \A u \in Threads : pc'[u] = "peak_cas" => pu'[u] < cur_usage'[u]
  BY <1>1
<1>7. \/ peak' = highest'
      \/ \E u \in Threads : pc'[u] \in {"peak_load", "peak_cas"} /\ cur_usage'[u] = highest'
  BY <1>2
<1> QED BY <1>3, <1>4, <1>5, <1>6, <1>7

(* All steps but those of stats_range are aside from the peak.             *)
LEMMA AsideSteps ==
  ASSUME Base, Peaks, NEW t \in Threads,
         \/ \E bits \in Sizes : SmallAllocate(t, bits) \/ Request(t, bits)
         \/ \E blk \in live : SmallDeallocate(t, blk) \/ Release(t, blk)
         \/ LargeAllocate(t) \/ LargeRefill(t) \/ Commit(t) \/ Return(t)
         \/ StatsSub(t) \/ Decommit(t) \/ LargeDeallocate(t) \/ Exit(t)
  PROVE  PeakAside(t)
<1> USE DEF Base, Shapes, Peaks, PeakAside, PeakSteps
<1>1. CASE \E bits \in Sizes : SmallAllocate(t, bits) \/ Request(t, bits)
  BY <1>1 DEF SmallAllocate, Request, stats, calls
<1>2. CASE \E blk \in live : SmallDeallocate(t, blk)
  <2>1. /\ pc[t] = "idle" /\ UNCHANGED <<peak, highest, cur_usage, pu>>
        /\ pc' = pc \/ pc' = [pc EXCEPT ![t] = "stats_sub"]
    BY <1>2 DEF SmallDeallocate, stats, calls
  <2> QED BY <2>1
<1>3. CASE \E blk \in live : Release(t, blk)
  BY <1>3 DEF Release, stats
<1>4. CASE LargeAllocate(t) \/ Commit(t) \/ StatsSub(t) \/ Decommit(t) \/ Exit(t)
  BY <1>4 DEF LargeAllocate, Commit, StatsSub, Decommit, Exit, stats
<1>5. CASE LargeRefill(t)
  <2>1. /\ pc[t] = "lock_alloc" /\ UNCHANGED <<peak, highest, cur_usage, pu>>
        /\ pc' = [pc EXCEPT ![t] = "return"] \/ pc' = [pc EXCEPT ![t] = "commit"]
    BY <1>5 DEF LargeRefill, stats
  <2> QED BY <2>1
<1>6. CASE Return(t) \/ LargeDeallocate(t)
  <2>1. /\ pc[t] \in {"return", "lock_dealloc"} /\ UNCHANGED <<peak, highest>>
        /\ pc' = [pc EXCEPT ![t] = "idle"]
        /\ cur_usage' = [cur_usage EXCEPT ![t] = 0]
        /\ pu' = [pu EXCEPT ![t] = 0]
    BY <1>6 DEF Return, LargeDeallocate, Finish, stats
  <2> QED BY <2>1
<1> QED BY <1>1, <1>2, <1>3, <1>4, <1>5, <1>6

(* current_usage never wraps below 0.                                      *)
LEMMA UsageNat ==
  ASSUME Base, Usage
  PROVE  usage \in Nat
BY CountedFinite, FS_CardinalityType DEF Usage

(* Every step keeps each maximum in the peak or on its way there.          *)
LEMMA PeaksStep ==
  ASSUME Base, Usage, Peaks, FailuresUnmapNothing, [Next]_vars
  PROVE  Peaks'
<1>1. usage \in Nat
  BY UsageNat
<1>2. CASE UNCHANGED vars
  BY <1>2 DEF vars, Peaks
<1>3. ASSUME NEW t \in Threads, Commit(t) \/ LargeRefill(t) \/ QuietStep(t),
             ~(PeakLoad(t) \/ PeakExchange(t))
      PROVE  Peaks'
  <2>1. PeakAside(t)
    BY <1>3, AsideSteps DEF QuietStep
  <2>2. usage' = usage
    <3>1. CASE QuietStep(t)
      BY <3>1, QuietKeeps
    <3>2. CASE LargeRefill(t) \/ Commit(t)
      BY <3>2 DEF LargeRefill, Commit, stats
    <3> QED BY <1>3, <3>1, <3>2
  <2> QED BY <2>1, <2>2, PeaksAside DEF Peaks
<1>4. ASSUME NEW t \in Threads, StatsSub(t) \/ Decommit(t)
      PROVE  Peaks'
  <2>1. PeakAside(t)
    BY <1>4, AsideSteps
  <2>2. want[t] \in Nat
    BY SizesAre DEF Base, Shapes
  <2>3. PICK n \in Nat \ {0} : n = 2 ^ want[t]
    BY <2>2, Pow2Pos
  <2>4. usage' = usage - n \/ usage' = usage
    BY <1>4, <2>3 DEF StatsSub, Decommit, stats
  <2>5. usage' <= highest
    BY <1>1, <2>3, <2>4 DEF Peaks
  <2> QED BY <2>1, <2>5, PeaksAside
<1>5. ASSUME NEW t \in Threads, StatsAdd(t)
      PROVE  Peaks'
  <2>1. BlockBits(want[t]) \in Nat
    BY BlockBitsAre DEF Base, Shapes
  <2>2. PICK n \in Nat \ {0} : n = 2 ^ BlockBits(want[t])
    BY <2>1, Pow2Pos
  <2>3. PICK sum \in Nat : sum = usage + n
    BY <1>1
  <2>4. /\ pc[t] = "stats_add" /\ usage' = sum
        /\ highest' = Max({highest, sum})
        /\ cur_usage' = [cur_usage EXCEPT ![t] = sum]
        /\ pc' = [pc EXCEPT ![t] = "peak_load"]
        /\ UNCHANGED <<peak, pu>>
    BY <1>5, <2>2, <2>3 DEF StatsAdd
  <2>5. highest' \in {highest, sum} /\ highest <= highest' /\ sum <= highest' /\ highest \in Nat
    BY <2>4, Larger DEF Peaks
  <2>6. /\ cur_usage'[t] = sum /\ pc'[t] = "peak_load"
        /\ \A u \in Threads \ {t} : pc'[u] = pc[u] /\ cur_usage'[u] = cur_usage[u] /\ pu'[u] = pu[u]
        /\ cur_usage' \in [Threads -> Nat]
    BY <2>4 DEF Base, Shapes, Peaks
  <2>7. \A u \in Threads : pc'[u] \in {"peak_load", "peak_cas"} => cur_usage'[u] <= highest'
    <3>1. \A u \in Threads \ {t} : pc'[u] \in {"peak_load", "peak_cas"} =>
            cur_usage'[u] <= highest /\ cur_usage'[u] \in Nat
      BY <2>6 DEF Peaks
    <3> QED BY <2>5, <2>6, <3>1
  <2>8. \/ peak' = highest'
        \/ \E u \in Threads : pc'[u] \in {"peak_load", "peak_cas"} /\ cur_usage'[u] = highest'
    <3>1. CASE highest' = sum
      BY <2>6, <3>1
    <3>2. CASE highest' = highest
      <4>1. ASSUME NEW u \in Threads, pc[u] \in {"peak_load", "peak_cas"}
            PROVE  pc'[u] = pc[u] /\ cur_usage'[u] = cur_usage[u]
        BY <2>4, <2>6, <4>1
      <4> QED BY <2>4, <3>2, <4>1 DEF Peaks
    <3> QED BY <2>5, <3>1, <3>2
  <2>9. \A u \in Threads : pc'[u] = "peak_cas" => pu'[u] < cur_usage'[u]
    BY <2>6 DEF Peaks
  <2>10. {peak, highest}' \subseteq Nat /\ peak' <= highest' /\ usage' <= highest'
         /\ {cur_usage, pu}' \subseteq [Threads -> Nat]
    BY <2>4, <2>5, <2>6 DEF Peaks
  <2> QED BY <2>7, <2>8, <2>9, <2>10 DEF Peaks
<1>6. ASSUME NEW t \in Threads, pc[t] \in PeakSteps, AfterPeakRead(t), UNCHANGED <<peak, usage, highest, cur_usage>>
      PROVE  Peaks'
  <2>1. /\ pu' = [pu EXCEPT ![t] = peak]
        /\ pc' = [pc EXCEPT ![t] = IF peak < cur_usage[t] THEN "peak_cas" ELSE "return"]
    BY <1>6 DEF AfterPeakRead
  <2>2. /\ pu'[t] = peak
        /\ peak < cur_usage[t] => pc'[t] = "peak_cas"
        /\ ~(peak < cur_usage[t]) => pc'[t] = "return"
        /\ \A u \in Threads \ {t} : pc'[u] = pc[u] /\ pu'[u] = pu[u]
        /\ pu' \in [Threads -> Nat]
        /\ peak \in Nat /\ highest \in Nat /\ cur_usage[t] \in Nat /\ cur_usage[t] <= highest
    BY <1>6, <2>1 DEF Base, Shapes, Peaks, PeakSteps
  <2>3. \A u \in Threads : pc'[u] \in {"peak_load", "peak_cas"} => cur_usage'[u] <= highest'
    BY <1>6, <2>2 DEF Peaks
  <2>4. \A u \in Threads : pc'[u] = "peak_cas" => pu'[u] < cur_usage'[u]
    BY <1>6, <2>2 DEF Peaks
  <2>5. \/ peak' = highest'
        \/ \E u \in Threads : pc'[u] \in {"peak_load", "peak_cas"} /\ cur_usage'[u] = highest'
    <3>1. CASE peak = highest
      BY <1>6, <3>1
    <3>2. ASSUME NEW u \in Threads, pc[u] \in {"peak_load", "peak_cas"}, cur_usage[u] = highest, peak # highest
          PROVE  pc'[u] \in {"peak_load", "peak_cas"} /\ cur_usage'[u] = highest'
      <4>1. peak < highest
        BY <2>2, <3>2 DEF Peaks
      <4> QED BY <1>6, <2>2, <3>2, <4>1
    <3> QED BY <3>1, <3>2 DEF Peaks
  <2>6. {peak, highest}' \subseteq Nat /\ peak' <= highest' /\ usage' <= highest'
        /\ {cur_usage, pu}' \subseteq [Threads -> Nat]
    BY <1>6, <2>2 DEF Peaks
  <2> QED BY <2>3, <2>4, <2>5, <2>6 DEF Peaks
<1>7. ASSUME NEW t \in Threads, PeakLoad(t)
      PROVE  Peaks'
  BY <1>6, <1>7 DEF PeakLoad, PeakSteps, stats
<1>8. ASSUME NEW t \in Threads, PeakExchange(t)
      PROVE  Peaks'
  <2>1. /\ pc[t] = "peak_cas" /\ UNCHANGED <<usage, highest, cur_usage>>
        /\ \/ /\ peak = pu[t] /\ peak' = cur_usage[t]
              /\ pc' = [pc EXCEPT ![t] = "return"] /\ pu' = pu
           \/ AfterPeakRead(t) /\ peak' = peak
    BY <1>8 DEF PeakExchange
  <2>2. CASE AfterPeakRead(t) /\ peak' = peak
    BY <1>6, <2>1, <2>2 DEF PeakSteps
  <2>3. CASE /\ peak = pu[t] /\ peak' = cur_usage[t]
             /\ pc' = [pc EXCEPT ![t] = "return"] /\ pu' = pu
    <3>1. /\ pc'[t] = "return" /\ \A u \in Threads \ {t} : pc'[u] = pc[u]
          /\ peak < cur_usage[t] /\ cur_usage[t] <= highest
          /\ cur_usage[t] \in Nat /\ peak \in Nat /\ highest \in Nat
      BY <2>1, <2>3 DEF Base, Shapes, Peaks
    <3>2. PICK u \in Threads : pc[u] \in {"peak_load", "peak_cas"} /\ cur_usage[u] = highest
      BY <3>1 DEF Peaks
    <3>3. \/ peak' = highest'
          \/ \E v \in Threads : pc'[v] \in {"peak_load", "peak_cas"} /\ cur_usage'[v] = highest'
      <4>1. CASE u = t
        BY <2>1, <2>3, <3>2, <4>1
      <4>2. CASE u # t
        BY <2>1, <3>1, <3>2, <4>2
      <4> QED BY <4>1, <4>2
    <3>4. /\ \A v \in Threads : pc'[v] \in {"peak_load", "peak_cas"} => cur_usage'[v] <= highest'
          /\ \A v \in Threads : pc'[v] = "peak_cas" => pu'[v] < cur_usage'[v]
      BY <2>1, <2>3, <3>1 DEF Peaks
    <3>5. {peak, highest}' \subseteq Nat /\ peak' <= highest' /\ usage' <= highest'
          /\ {cur_usage, pu}' \subseteq [Threads -> Nat]
      BY <2>1, <2>3, <3>1 DEF Peaks
    <3> QED BY <3>3, <3>4, <3>5 DEF Peaks
  <2> QED BY <2>1, <2>2, <2>3
<1> QED BY <1>2, <1>3, <1>4, <1>5, <1>7, <1>8, NextIs

(* So it is in every state.                                                *)
LEMMA PeaksHolds == FailuresUnmapNothing /\ Spec => []Peaks
<1> SUFFICES ASSUME FailuresUnmapNothing PROVE Spec => []Peaks
  OBVIOUS
<1>1. Init => Peaks
  BY DEF Init, Peaks
<1>2. Base /\ Usage /\ Peaks /\ [Next]_vars => Peaks'
  BY PeaksStep
<1>3. Spec => []Base
  BY BaseHolds
<1>4. Spec => []Usage
  BY UsageHolds
<1> QED BY <1>1, <1>2, <1>3, <1>4, PTL DEF Spec

(* The variables of the pipeline have their types: none of the pages that   *)
(* are mapped is one where mmap places nothing, and current_usage, from     *)
(* which the layers subtract, does not fall below 0.                        *)
THEOREM TypeCorrect == FailuresUnmapNothing /\ Spec => []TypeOK
<1>1. Base /\ Usage /\ Peaks => TypeOK
  <2> SUFFICES ASSUME Base, Usage, Peaks PROVE TypeOK
    OBVIOUS
  <2>1. usage \in Nat
    BY UsageNat
  <2> QED BY <2>1 DEF TypeOK, Base, Shapes, Peaks, Steps, AllocSteps, FreeSteps
<1> QED BY <1>1, BaseHolds, UsageHolds, PeaksHolds, PTL

(* current_usage is the memory above stats_range, and peak_usage catches up *)
(* with the greatest value that it has had, whatever loads, additions and   *)
(* exchanges the threads interleave.                                        *)
THEOREM StatsExactHolds == FailuresUnmapNothing /\ Spec => []StatsExact
<1>1. Base /\ Usage /\ Peaks => StatsExact
  <2> SUFFICES ASSUME Base, Usage, Peaks PROVE StatsExact
    OBVIOUS
  <2>1. Counted = CountedOwners
    BY OwnedIs DEF Base
  <2>2. UsageExact
    BY <2>1 DEF UsageExact, Usage, OwnersCover
  <2>3. PeakCatchesUp
    BY DEF PeakCatchesUp, Peaks
  <2> QED BY <2>2, <2>3 DEF StatsExact
<1> QED BY <1>1, BaseHolds, UsageHolds, PeaksHolds, PTL

-----------------------------------------------------------------------------
(* What a caller sees.                                                     *)
LEMMA LiveChanges ==
  ASSUME [Next]_vars
  PROVE  \/ live' = live
         \/ \E blk \in live : live' = live \ {blk}
         \/ \E blk : live' = live \cup {blk}
<1>1. CASE UNCHANGED vars
  BY <1>1 DEF vars
<1>2. ASSUME NEW t \in Threads, NEW bits \in Sizes, SmallAllocate(t, bits) \/ Request(t, bits)
      PROVE  live' = live \/ \E blk : live' = live \cup {blk}
  BY <1>2 DEF SmallAllocate, Request
<1>3. ASSUME NEW t \in Threads, NEW blk \in live, SmallDeallocate(t, blk) \/ Release(t, blk)
      PROVE  live' = live \ {blk}
  BY <1>3 DEF SmallDeallocate, Release
<1>4. ASSUME NEW t \in Threads, Return(t)
      PROVE  live' = live \/ \E blk : live' = live \cup {blk}
  BY <1>4 DEF Return
<1>5. ASSUME NEW t \in Threads,
             \/ LargeAllocate(t) \/ LargeRefill(t) \/ Commit(t) \/ StatsAdd(t) \/ PeakLoad(t)
             \/ PeakExchange(t) \/ StatsSub(t) \/ Decommit(t) \/ LargeDeallocate(t) \/ Exit(t)
      PROVE  live' = live
  BY <1>5 DEF LargeAllocate, LargeRefill, Commit, StatsAdd, PeakLoad, PeakExchange, StatsSub,
              Decommit, LargeDeallocate, Exit
<1> QED BY <1>1, <1>2, <1>3, <1>4, <1>5 DEF Next, Step

(* Every step hands out one block as Allocator allows, takes one back, or  *)
(* leaves the callers' blocks alone.                                       *)
LEMMA AllocatorStep ==
  ASSUME Base', [Next]_vars
  PROVE  Abstract!Next \/ live' = live
<1>1. ASSUME NEW blk \in live, live' = live \ {blk} PROVE Abstract!Next
  BY <1>1 DEF Abstract!Next, Abstract!Free
<1>2. ASSUME NEW blk, live' = live \cup {blk}, blk \notin live PROVE Abstract!Next
  <2>1. blk \in live' \ live
    BY <1>2
  <2>2. blk[1] \in Nat /\ blk[2] \in Sizes /\ blk[2] \in Nat
    BY <2>1, SizesAre DEF Base, Shapes
  <2>3. blk[1] % (2 ^ blk[2]) = 0
    BY <2>1 DEF Base, Placed, AllAligned, Aligned
  <2>4. ASSUME NEW held \in live'
        PROVE  /\ <<"caller", held>> \in AllOwners' /\ OwnedSpan(<<"caller", held>>) = BlockSpan(held)
               /\ Abstract!Addresses(held) = BlockSpan(held)
    <3>1. <<"caller", held>> \in AllOwners'
      BY DEF AllOwners, Owners
    <3>2. Abstract!Addresses(held) = BlockSpan(held)
      BY DEF Abstract!Addresses, BlockSpan, Span
    <3> QED BY <3>1, <3>2, OwnerSpans
  <2>5. blk[1] # 0
    <3>1. blk[1] \in BlockSpan(blk)
      BY <2>2, SpanIs DEF BlockSpan
    <3>2. blk[1] \in OwnersCover(AllOwners')
      BY <2>1, <2>4, <3>1 DEF OwnersCover
    <3>3. blk[1] \div PageSize \in mapped'
      BY <3>2 DEF Base, Memory, OwnersCover, AddressesOf
    <3>4. blk[1] \div PageSize \in MmapPages
      BY <3>3 DEF Base, Shapes
    <3> QED BY <2>2, <3>4, MmapPagesAre
  <2>6. ASSUME NEW held \in live
        PROVE  Abstract!Addresses(held) \cap Abstract!Addresses(blk) = {}
    <3>1. held \in live' /\ blk \in live' /\ held # blk
      BY <1>2
    <3>2. PICK a, b : a = <<"caller", held>> /\ b = <<"caller", blk>>
      OBVIOUS
    <3>3. a # b
      BY <3>1, <3>2
    <3>4. a \in AllOwners' /\ b \in AllOwners'
      BY <2>4, <3>1, <3>2
    <3>5. OwnedSpan(a) \cap OwnedSpan(b) = {}
      BY <3>3, <3>4 DEF Base, Memory, OwnersApart
    <3>6. /\ OwnedSpan(a) = Abstract!Addresses(held)
          /\ OwnedSpan(b) = Abstract!Addresses(blk)
      BY <2>4, <3>1, <3>2
    <3> QED BY <3>5, <3>6
  <2> QED BY <1>2, <2>1, <2>2, <2>3, <2>5, <2>6 DEF Abstract!Next, Abstract!Allocate
<1>3. ASSUME NEW blk, live' = live \cup {blk}, blk \in live PROVE live' = live
  BY <1>3
<1> QED BY <1>1, <1>2, <1>3, LiveChanges

(* The pipeline as a whole keeps the promise of an allocator: what it hands *)
(* out is aligned, is not nullptr, and meets no block that is held.         *)
THEOREM ImplementsAllocatorHolds == FailuresUnmapNothing /\ Spec => ImplementsAllocator
<1> SUFFICES ASSUME FailuresUnmapNothing PROVE Spec => ImplementsAllocator
  OBVIOUS
<1>1. Init => Abstract!Init
  BY DEF Init, Abstract!Init
<1>2. Base' /\ [Next]_vars => [Abstract!Next]_live
  BY AllocatorStep
<1>3. Spec => []Base
  BY BaseHolds
<1> QED BY <1>1, <1>2, <1>3, PTL DEF Spec, ImplementsAllocator, Abstract!Spec

-----------------------------------------------------------------------------
(* What the small buddies keep.                                            *)
LEMMA Nests ==
  ASSUME NEW x \in Nat, NEW y \in Nat, NEW i \in Nat, NEW j \in Nat, i <= j,
         Aligned(x, i), Aligned(y, j), Span(x, i) \cap Span(y, j) # {}
  PROVE  Span(x, i) \subseteq Span(y, j)
<1>1. \A a, n : SmallLemmas!Span(a, n) = Span(a, n)
  BY DEF SmallLemmas!Span, SmallLemmas!one_at_bit, Span
<1>2. SmallLemmas!Aligned(x, i) /\ SmallLemmas!Aligned(y, j) /\ SmallLemmas!Span(x, i) \cap SmallLemmas!Span(y, j) # {}
  BY <1>1, SmallSame
<1>3. SmallLemmas!Span(x, i) \subseteq SmallLemmas!Span(y, j)
  BY <1>2, SmallAssumed, SmallLemmas!Nested
<1> QED BY <1>1, <1>3

(* The addresses of a page are those that its number is the quotient of.   *)
LEMMA PageIs ==
  ASSUME NEW k \in Nat
  PROVE  /\ k * PageSize \in Nat /\ Aligned(k * PageSize, PageBits)
         /\ \A a \in Nat : a \in Span(k * PageSize, PageBits) <=> a \div PageSize = k
<1>1. PICK p \in Nat \ {0} : p = PageSize /\ p = 2 ^ PageBits
  BY PageSizeIs DEF PageSize
<1>2. k * p \in Nat /\ (k + 1) * p = k * p + p /\ k + 1 \in Nat \ {0}
  OBVIOUS
<1>3. Aligned(k * p, PageBits)
  <2>1. (k * p + 0) % p = 0
    BY RemOfSum
  <2> QED BY <1>1, <1>2, <2>1 DEF Aligned
<1>4. ASSUME NEW a \in Nat
      PROVE  a \in Span(k * p, PageBits) <=> a \div p = k
  <2>1. a \div p \in k .. (k + 1) - 1 <=> (k * p <= a /\ a < (k + 1) * p)
    BY <1>1, <1>2, PageRun
  <2>2. a \in Span(k * p, PageBits) <=> (k * p <= a /\ a < (k + 1) * p)
    BY <1>1, <1>2 DEF Span
  <2>3. a \div p \in Nat
    BY QuotRem
  <2> QED BY <2>1, <2>2, <2>3
<1> QED BY <1>1, <1>2, <1>3, <1>4

(* When everything has been freed, the only memory that has not gone back  *)
(* are pages of which different threads have free parts: the buddy of one   *)
(* thread would have merged its parts to the page, and passed it down.      *)
THEOREM RetainedPagesAreSplitHolds == FailuresUnmapNothing /\ Spec => []RetainedPagesAreSplit
<1>1. Base => RetainedPagesAreSplit
  <2> SUFFICES ASSUME Base, live = {}, Busy = {}, NEW t \in Threads, NEW blk \in SmallBlocks(t)
               PROVE  \E other \in Threads \ {t} : \E rest \in SmallBlocks(other) :
                        rest[1] \div PageSize = blk[1] \div PageSize
    BY DEF RetainedPagesAreSplit
  <2> USE DEF Base
  <2>1. PICK mine : mine = <<"small", t, blk>>
    OBVIOUS
  <2>2. /\ \A u \in Threads : \A b \in SmallBlocks(u) :
             <<"small", u, b>> \in AllOwners /\ OwnedSpan(<<"small", u, b>>) = BlockSpan(b)
        /\ \A u \in Threads : \A b \in SmallBlocks(u) :
             b[1] \in Nat /\ b[2] \in Nat /\ b[2] < PageBits /\ Aligned(b[1], b[2])
    <3>1. ASSUME NEW u \in Threads, NEW b \in SmallBlocks(u) PROVE <<"small", u, b>> \in AllOwners
      <4>1. <<u, b>> \in FreeInSmall /\ <<u, b>>[1] = u /\ <<u, b>>[2] = b
        BY DEF FreeInSmall, Of
      <4> QED BY <4>1 DEF AllOwners, Owners
    <3>2. ASSUME NEW u \in Threads, NEW b \in SmallBlocks(u)
          PROVE  b[1] \in Nat /\ b[2] \in Nat /\ b[2] < PageBits
      BY PairsOfThreads, SmallSame, SizesAre
    <3> QED BY <3>1, <3>2, OwnerSpans DEF Placed, AllAligned
  <2>3. /\ mine \in AllOwners /\ blk[1] \in OwnedSpan(mine) /\ blk[1] \in Nat
        /\ blk[1] \in BlockSpan(blk)
    BY <2>1, <2>2, SpanIs DEF BlockSpan
  <2>4. PICK k : k = blk[1] \div PageSize
    OBVIOUS
  <2>5. k \in mapped /\ k \in Nat
    <3>1. blk[1] \in AddressesOf(mapped)
      BY <2>3 DEF Memory, OwnersCover
    <3> QED BY <2>4, <3>1, MmapPagesAre DEF AddressesOf, Shapes
  <2>6. PICK start : start = k * PageSize
    OBVIOUS
  <2>7. /\ start \in Nat /\ Aligned(start, PageBits)
        /\ \A a \in Nat : a \in Span(start, PageBits) <=> a \div PageSize = k
    BY <2>5, <2>6, PageIs
  <2>8. ~(Span(start, PageBits) \subseteq Cover(SmallBlocks(t)))
    <3>1. Apart(SmallBlocks(t))
      <4>1. ASSUME NEW a \in SmallBlocks(t), NEW b \in SmallBlocks(t), a # b
            PROVE  BlockSpan(a) \cap BlockSpan(b) = {}
        <5>1. PICK x, y : x = <<"small", t, a>> /\ y = <<"small", t, b>>
          OBVIOUS
        <5>2. x # y
          BY <4>1, <5>1
        <5>3. /\ x \in AllOwners /\ OwnedSpan(x) = BlockSpan(a)
              /\ y \in AllOwners /\ OwnedSpan(y) = BlockSpan(b)
          BY <2>2, <5>1
        <5> QED BY <5>2, <5>3 DEF Memory, OwnersApart
      <4> QED BY <4>1 DEF Apart
    <3>2. small[t] \in [Small!BlockBits -> SUBSET Nat] /\ Merged(small[t]) /\ AllAligned(SmallBlocks(t))
      BY DEF Shapes, Placed
    <3> QED BY <2>7, <3>1, <3>2, PagesLeave DEF SmallBlocks
  <2>9. PICK x \in Span(start, PageBits) : x \notin Cover(SmallBlocks(t))
    BY <2>8
  <2>10. x \in Nat /\ PageBits \in Nat
    BY <2>7, SpanIs, SizesAre
  <2>11. PICK own \in AllOwners : x \in OwnedSpan(own)
    <3>1. x \in AddressesOf(mapped)
      BY <2>5, <2>7, <2>9, <2>10 DEF AddressesOf
    <3> QED BY <3>1 DEF Memory, OwnersCover
  <2>12. \/ own[1] = "small" /\ \E s \in FreeInSmall : own = <<"small", s[1], s[2]>>
         \/ own[1] = "large" /\ own = <<"large", own[2]>> /\ own[2] \in FreeInLarge
    <3>1. Calls({}) = {}
      <4>1. ASSUME NEW u \in Threads PROVE ptr[u] = nullptr
        <5>1. pc[u] \in {"idle", "exited"}
          BY DEF Busy
        <5> QED BY <5>1 DEF Control
      <4> QED BY <4>1 DEF Calls, CallOf
    <3>2. \/ own[1] = "caller" /\ own = <<"caller", own[2]>> /\ own[2] \in live
          \/ own[1] = "small" /\ \E s \in FreeInSmall : own = <<"small", s[1], s[2]>>
          \/ own[1] = "large" /\ own = <<"large", own[2]>> /\ own[2] \in FreeInLarge
          \/ own[1] = "call" /\ \E c \in Calls({}) : own = <<"call", c[1], c[2]>>
      BY OwnersMember DEF AllOwners
    <3> QED BY <3>1, <3>2
  <2>13. ASSUME own[1] = "large" PROVE FALSE
    <3>1. PICK b \in FreeInLarge : own = <<"large", b>>
      BY <2>12, <2>13
    <3>2. b[1] \in Nat /\ b[2] \in Nat /\ PageBits <= b[2] /\ Aligned(b[1], b[2])
      BY PairsOfThreads, LargeSame, SizesAre DEF Placed, AllAligned
    <3>3. OwnedSpan(own) = Span(b[1], b[2])
      BY <3>1, OwnerSpans DEF BlockSpan
    <3>4. Span(start, PageBits) \cap Span(b[1], b[2]) # {}
      BY <2>9, <2>11, <3>3
    <3>5. Span(start, PageBits) \subseteq Span(b[1], b[2])
      BY <2>7, <2>10, <3>2, <3>4, Nests
    <3>6. blk[1] \in OwnedSpan(own)
      BY <2>3, <2>4, <2>7, <3>3, <3>5
    <3>7. mine[1] # own[1]
      BY <2>1, <2>13
    <3> QED BY <2>3, <3>6, <3>7 DEF Memory, OwnersApart
  <2>14. PICK s \in FreeInSmall : own = <<"small", s[1], s[2]>>
    BY <2>12, <2>13
  <2>15. PICK u \in Threads : \E r \in SmallBlocks(u) : s = <<u, r>>
    BY DEF FreeInSmall, Of
  <2>16. PICK r \in SmallBlocks(u) : s = <<u, r>>
    BY <2>15
  <2>17. own = <<"small", u, r>> /\ x \in BlockSpan(r)
    BY <2>2, <2>11, <2>14, <2>16
  <2>18. u # t
    BY <2>9, <2>17 DEF Cover
  <2>19. r[1] \div PageSize = k
    <3>1. r[1] \in Nat /\ r[2] \in Nat /\ r[2] <= PageBits /\ Aligned(r[1], r[2])
      BY <2>2, <2>10
    <3>2. Span(r[1], r[2]) \cap Span(start, PageBits) # {}
      BY <2>9, <2>17 DEF BlockSpan
    <3>3. Span(r[1], r[2]) \subseteq Span(start, PageBits)
      BY <2>7, <2>10, <3>1, <3>2, Nests
    <3> QED BY <2>7, <3>1, <3>3, SpanIs
  <2> QED BY <2>4, <2>18, <2>19
<1> QED BY <1>1, BaseHolds, PTL
=============================================================================
