----------------------------- MODULE SharedParts -----------------------------
(***************************************************************************)
(* What all threads share: the pool of remote_allocators (Pool) and the    *)
(* global_allocator of large blocks (GlobalAllocator).  They share no      *)
(* variable, so in a behaviour of this module one of them takes all the    *)
(* steps and the other stays as it is initially.                           *)
(***************************************************************************)
EXTENDS Pool

CONSTANTS
  Bits, AddressBits, IntermediateBits, MinAllocBits,           \* GlobalAllocator's
  MediumThresholdBits, LargeThresholdBits, PageBits,
  Requests, MaxBlocks

VARIABLES
  part,                                                  \* the one that takes steps
  l_pc, ptr, size, large_stack, pagemap, blocks, committed, l_held, peak

Large == INSTANCE GlobalAllocator WITH pc <- l_pc, held <- l_held

ASSUME LargeConstants == Large!GlobalConstants

large_vars == <<l_pc, ptr, size, large_stack, pagemap, blocks, committed, l_held, peak>>

SharedInit == part \in {"pool", "global_allocator"} /\ Init /\ Large!Init

SharedNext ==
  \/ part = "pool" /\ Next /\ UNCHANGED <<part, large_vars>>
  \/ part = "global_allocator" /\ Large!Next /\ UNCHANGED <<part, vars>>

SharedSpec == SharedInit /\ [][SharedNext]_<<part, vars, large_vars>>

-----------------------------------------------------------------------------
(* Nobody is given an object or a block that another thread has, and none  *)
(* is lost: each is held once, or in one call, or once on a stack - for a  *)
(* block, on that of its own class.                                        *)
NobodyShares == /\ part = "pool" => OnePlace
                /\ part = "global_allocator" => Large!OnePlace

(* Slabs with room wait in one place, and threads that miss the slab       *)
(* another one is cutting do not let their number grow.                    *)
SlabsAccounted == part = "pool" => SlabsInOnePlace /\ FewOpenSlabs

(* Objects of the pool end in their slabs; blocks are as large as asked    *)
(* for and known as such, and the page with a stack's link stays.          *)
MemorySound == /\ part = "pool" => InsideSlab
               /\ part = "global_allocator" => Large!BigEnough /\ Large!NodesCommitted

(* Nothing is decommitted under a caller. *)
HeldUndisturbed == Large!HeldUndisturbed

(* Freed blocks are reused before new memory is reserved. *)
ReusedBeforeReserved == part = "global_allocator" => Large!ReusedBeforeReserved
=============================================================================
