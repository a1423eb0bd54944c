-------------------------------- MODULE Buddy --------------------------------
(***************************************************************************)
(* One buddy (include/cielmalloc/buddy.hpp) between the callers that hold  *)
(* its blocks and the upper range that refills it.  This is the component  *)
(* on its own; Range.tla puts two of them into the pipeline of ranges.     *)
(***************************************************************************)
EXTENDS BuddyOps

CONSTANTS
  RefillBits,  \* log2 of the least size the callback asks the upper range for
  Chunks       \* addresses at which the upper range may grant a block

ASSUME BuddyRefill == /\ RefillBits \in BitBegin .. BitEnd
                      /\ Chunks \subseteq Nat \ {nullptr}

VARIABLES
  trees,    \* trees_: the free blocks, by size
  live,     \* the blocks <<address, bits>> that callers hold
  granted   \* the addresses the upper range has granted and not got back

vars == <<trees, live, granted>>

-----------------------------------------------------------------------------
Init == /\ trees = EmptyTrees
        /\ live = {}
        /\ granted = {}

(* The request finds a free block, of its size or larger. *)
Allocate(index) ==
  LET res == allocate_block(trees, index) IN
  /\ Donors(trees, index) # {}
  /\ trees' = res.trees
  /\ live' = live \cup {<<res.node, index>>}
  /\ UNCHANGED granted

(* The size the callback refills with: ciel::max(size, RefillSize) in      *)
(* large_buddy_range, the fixed MaxBlockSize (RefillBits = BitEnd) in      *)
(* small_buddy_range.                                                      *)
RefillSizeBits(index) == Max({index, RefillBits})

(* What the upper range can grant: an aligned block it does not have out.  *)
Refills(bits) ==
  {b \in Chunks : Aligned(b, bits) /\ Span(b, bits) \cap granted = {}}

(* No tree can serve the request: the callback is called and its block is  *)
(* divided.  A refill that fails returns nullptr and changes nothing.      *)
AllocateRefill(index) ==
  LET bits == RefillSizeBits(index) IN
  /\ Donors(trees, index) = {}
  /\ \E block \in Refills(bits) :
       /\ trees' = divide_block(trees, block, bits, index)
       /\ live' = live \cup {<<block, index>>}
       /\ granted' = granted \cup Span(block, bits)

(* A caller gives a block back.  A block that has grown to 2^BitEnd is     *)
(* returned, for the caller to pass on to the upper range.                 *)
Deallocate(ptr, index) ==
  LET res == deallocate_block(trees, ptr, index) IN
  /\ <<ptr, index>> \in live
  /\ trees' = res.trees
  /\ live' = live \ {<<ptr, index>>}
  /\ granted' = IF res.node = nullptr THEN granted
                                      ELSE granted \ Span(res.node, BitEnd)

Next == \/ \E index \in BlockBits : Allocate(index)
        \/ \E index \in BlockBits : AllocateRefill(index)
        \/ \E blk \in live : Deallocate(blk[1], blk[2])

Spec == Init /\ [][Next]_vars

-----------------------------------------------------------------------------
TypeOK == /\ trees \in [BlockBits -> SUBSET Nat]
          /\ live \subseteq Nat \X BlockBits
          /\ granted \subseteq Nat

Free == FreeBlocks(trees)

(* No two blocks share an address, whether they are free or held: the      *)
(* memory a caller got from allocate_block is never in a tree, never part  *)
(* of a larger free block, and never handed out twice.                     *)
BlocksDisjoint ==
  /\ live \cap Free = {}
  /\ \A a, b \in live \cup Free :
       a # b => BlockSpan(a) \cap BlockSpan(b) = {}

(* Dividing and merging neither lose nor invent memory: the free and the   *)
(* held blocks cover exactly what the upper range has granted.             *)
NothingLost == UNION {BlockSpan(blk) : blk \in live \cup Free} = granted

(* Free memory is always merged as far as it goes: no tree holds both      *)
(* halves of a block.                                                      *)
Coalesced ==
  \A i \in BlockBits : \A node \in trees[i] : OtherHalf(node, i) \notin trees[i]

(* Every block, free or held, is aligned to its size: the address          *)
(* arithmetic of deallocate_block (node ^ bit_size) relies on it.          *)
BlocksAligned == \A blk \in live \cup Free : Aligned(blk[1], blk[2])

(* The upper range is asked for memory only if no aligned block of the     *)
(* requested size is left in the free memory, however it is divided.       *)
FreeAddrs == UNION {BlockSpan(blk) : blk \in Free}

RefillOnlyWhenExhausted ==
  [][\A index \in BlockBits : AllocateRefill(index) =>
       \A a \in FreeAddrs : Aligned(a, index) => ~(Span(a, index) \subseteq FreeAddrs)]_vars

(* A buddy keeps the promise of an allocator.                              *)
Abstract == INSTANCE Allocator WITH Sizes <- BlockBits
ImplementsAllocator == Abstract!Spec
=============================================================================
