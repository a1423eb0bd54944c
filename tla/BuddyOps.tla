------------------------------ MODULE BuddyOps ------------------------------
(***************************************************************************)
(* The algorithms of class buddy (include/cielmalloc/buddy.hpp).           *)
(*                                                                         *)
(* A buddy keeps one ordered tree of free blocks per block size.  A block  *)
(* of 2^i address units is represented by its base address, so a value of  *)
(* "trees" is a function from the size bits to sets of base addresses.     *)
(* Addresses are natural numbers; 0 is nullptr.                            *)
(***************************************************************************)
EXTENDS Integers, FiniteSetsExt

CONSTANTS
  BitBegin,  \* log2 of the smallest block
  BitEnd     \* log2 of the first size the buddy does not keep

ASSUME BuddyBits == /\ BitBegin \in Nat
                    /\ BitEnd \in Nat
                    /\ BitBegin < BitEnd

nullptr == 0

one_at_bit(shift) == 2 ^ shift

(* The sizes a tree exists for: ciel::array<..., BitBegin, BitEnd>. *)
BlockBits == BitBegin .. BitEnd - 1

(* The addresses of a block, and what it means for it to be well placed. *)
Span(addr, bits) == addr .. addr + one_at_bit(bits) - 1

Aligned(addr, bits) == addr % one_at_bit(bits) = 0

EmptyTrees == [i \in BlockBits |-> {}]

(* The blocks in the trees, as pairs <<address, bits>>. *)
FreeBlocks(trees) ==
  {blk \in (UNION {trees[i] : i \in BlockBits}) \X BlockBits :
     blk[1] \in trees[blk[2]]}

BlockSpan(blk) == Span(blk[1], blk[2])

(***************************************************************************)
(* node->value() ^ one_at_bit(i): flip bit i of the address.               *)
(***************************************************************************)
OtherHalf(node, i) ==
  IF (node \div one_at_bit(i)) % 2 = 0
  THEN node + one_at_bit(i)
  ELSE node - one_at_bit(i)

(* Mutation: one half too few.                                             *)
divide_block_short(trees, block, from, to) ==
  [i \in BlockBits |->
     IF to < i /\ i < from
     THEN trees[i] \cup {block + one_at_bit(i)}
     ELSE trees[i]]

(***************************************************************************)
(* divide_block: keep the first 2^to of a block of 2^from, and insert the  *)
(* upper half of every size in between into its tree.                      *)
(***************************************************************************)
divide_block(trees, block, from, to) ==
  [i \in BlockBits |->
     IF to <= i /\ i < from
     THEN trees[i] \cup {block + one_at_bit(i)}
     ELSE trees[i]]

(* Mutation: only the tree of the very size.                               *)
DonorsOfSize(trees, index) == {i \in {index} : trees[i] # {}}

(* The trees allocate_block can serve a request of 2^index from. *)
Donors(trees, index) == {i \in index .. BitEnd - 1 : trees[i] # {}}

(* Mutation: the block is found but not extracted.                         *)
allocate_block_kept(trees, index) ==
  LET from == Min(Donors(trees, index))
      node == Min(trees[from])
  IN  [trees |-> divide_block(trees, node, from, index), node |-> node]

(***************************************************************************)
(* allocate_block when some tree can serve the request: extract the lowest *)
(* block of the smallest donor size and divide it down to 2^index.         *)
(***************************************************************************)
allocate_block(trees, index) ==
  LET from == Min(Donors(trees, index))
      node == Min(trees[from])
  IN  [trees |-> divide_block([trees EXCEPT ![from] = @ \ {node}],
                              node, from, index),
       node  |-> node]

(* Mutations: the size is subtracted, the address is left as it is.        *)
MergedNodeMinus(ptr, i) == ptr - one_at_bit(i)

MergedNodeSame(ptr, i) == ptr

(***************************************************************************)
(* The loop of deallocate_block merges a block with its other half as long *)
(* as that half is free.  After merging up to size i the node is the       *)
(* smaller of the two addresses each time, that is ptr with its bits below *)
(* i cleared; the loop stops at the first size whose other half is not in  *)
(* its tree, or at BitEnd.                                                 *)
(***************************************************************************)
MergedNode(ptr, i) == ptr - (ptr % one_at_bit(i))

(* Mutations: the loop is not entered, is not repeated.                    *)
StopSizesAtOnce(trees, ptr, index) == {index}

StopSizesAfterOne(trees, ptr, index) ==
  {i \in index .. index + 1 :
     i = index => OtherHalf(MergedNode(ptr, i), i) \notin trees[i]}

StopSizes(trees, ptr, index) ==
  {i \in index .. BitEnd :
     i < BitEnd => OtherHalf(MergedNode(ptr, i), i) \notin trees[i]}

(* Mutation: the other halves stay in their trees.                         *)
deallocate_block_kept(trees, ptr, index) ==
  LET stop == Min(StopSizes(trees, ptr, index))
      node == MergedNode(ptr, stop)
  IN  [trees |-> [i \in BlockBits |->
                    IF i = stop THEN trees[i] \cup {node} ELSE trees[i]],
       node  |-> IF stop = BitEnd THEN node ELSE nullptr]

deallocate_block(trees, ptr, index) ==
  LET stop == Min(StopSizes(trees, ptr, index))
      node == MergedNode(ptr, stop)
  IN  [trees |-> [i \in BlockBits |->
                    IF index <= i /\ i < stop
                    THEN trees[i] \ {OtherHalf(MergedNode(ptr, i), i)}
                    ELSE IF i = stop THEN trees[i] \cup {node}
                                     ELSE trees[i]],
       node  |-> IF stop = BitEnd THEN node ELSE nullptr]
=============================================================================
