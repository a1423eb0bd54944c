--------------------------------- MODULE Slab ---------------------------------
(***************************************************************************)
(* What a slab promises to its thread allocator: a set of free objects,    *)
(* any of which an allocation may take, and to which every object that is  *)
(* freed returns.  ThreadAllocator sees slabs this way; MediumSlab and the *)
(* meta_slabs of SmallSlab implement it.                                   *)
(***************************************************************************)
CONSTANT Offsets   \* where objects may be in the slab's chunk

VARIABLES free, held

Init == free \subseteq Offsets /\ held = {}

(* A slab that nobody has an object of is cut up for a (new) size class. *)
Cut == held = {} /\ free' \subseteq Offsets /\ UNCHANGED held

Allocate == \E o \in free : free' = free \ {o} /\ held' = held \cup {o}

Deallocate == \E o \in held : free' = free \cup {o} /\ held' = held \ {o}

Next == Cut \/ Allocate \/ Deallocate

Spec == Init /\ [][Next]_<<free, held>>
=============================================================================
