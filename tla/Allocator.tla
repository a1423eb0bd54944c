------------------------------ MODULE Allocator ------------------------------
(***************************************************************************)
(* What every layer of the allocator promises to the one above it, as the  *)
(* least a caller relies on: a block that is handed out is aligned to its  *)
(* size, is not nullptr, and shares no address with a block that is still  *)
(* held.  Buddy and Range implement this specification.                    *)
(***************************************************************************)
EXTENDS Integers

CONSTANT Sizes  \* log2 of the block sizes that can be asked for

VARIABLE live   \* the blocks <<address, bits>> that callers hold

Addresses(blk) == blk[1] .. blk[1] + 2 ^ blk[2] - 1

Allocate == \E blk \in live' \ live :
              /\ blk[1] \in Nat \ {0}
              /\ blk[2] \in Sizes
              /\ blk[1] % (2 ^ blk[2]) = 0
              /\ \A held \in live : Addresses(held) \cap Addresses(blk) = {}
              /\ live' = live \cup {blk}

Free == \E blk \in live : live' = live \ {blk}

Init == live = {}

Next == Allocate \/ Free

Spec == Init /\ [][Next]_live
=============================================================================
