------------------------- MODULE MCThreadAllocator -------------------------
(* Instances of ThreadAllocator for TLC. *)
EXTENDS ThreadAllocator, TLC

(* Threads and chunks are interchangeable, and so are the objects of a slab, *)
(* whose order in its stack of free objects is not modelled.                 *)
Symmetric == Permutations(Threads) \cup Permutations(Chunks) \cup Permutations(Slots)

(* With one bit per slot, all three ids share slot 1 of the first level, and *)
(* 1 and 5 share slot 0 of the second.                                       *)
CollidingIds == {1, 3, 5}
=============================================================================
