------------------------------ MODULE Interface ------------------------------
(***************************************************************************)
(* From the size a caller asks for to the object it gets: the two entry    *)
(* points (interface.hpp, malloc.cpp) and the choice between small, medium *)
(* and large objects in thread_allocator::allocate.                        *)
(***************************************************************************)
EXTENDS Sizeclass

CONSTANTS
  Entries,   \* the entry points in use: "interface", "malloc.cpp"
  Requests   \* the sizes callers ask for

ASSUME InterfaceConstants ==
  /\ CountersFit
  /\ Entries \subseteq {"interface", "malloc.cpp"}
  /\ Requests \subseteq 0 .. 2 ^ Bits - 1

VARIABLES
  entry, request,  \* the call
  object           \* what it is served with

vars == <<entry, request, object>>

None == [kind |-> "none"]

Init == entry \in Entries /\ request \in Requests /\ object = None

(* What the entry point passes on: interface.hpp adds the top bit of       *)
(* size - 1, which makes 1 of 0 and passes other addressable sizes as they *)
(* are; malloc.cpp passes every size as it is.                             *)
malloc_size(e, size) ==
  IF e = "interface" THEN SizeT(SizeT(size - 1) \div 2 ^ (Bits - 1) + size) ELSE size

(* The pool of slabs or the stack of blocks that serves size.  For a large *)
(* one, next_pow2_bits asserts that its argument is not 0.                 *)
allocate(size) ==
  LET sc == size_to_sizeclass(size)
      slab_object(kind, slots) ==
        [kind |-> kind, class |-> sc, size |-> sizeclass_to_size[sc],
         alignment |-> sizeclass_to_alignment[sc], slots |-> slots]
  IN  CASE sc \in SmallClasses -> slab_object("Small", small_slab_slots[sc])
        [] sc \in MediumClasses -> slab_object("Medium", medium_slab_slots[sc])
        [] OTHER -> IF size = 0
                    THEN [kind |-> "assertion"]
                    ELSE LET bits == Uint8(next_pow2_bits(size))
                         IN  [kind |-> "Large", class |-> bits, size |-> SizeT(one_at_bit(bits))]

Malloc == /\ object = None
          /\ object' = allocate(malloc_size(entry, request))
          /\ UNCHANGED <<entry, request>>

(* The caller frees the object, and may ask again. *)
Free == /\ object # None
        /\ object' = None
        /\ UNCHANGED <<entry, request>>

Next == Malloc \/ Free

Spec == Init /\ [][Next]_vars

-----------------------------------------------------------------------------
(* Sizes that the address space can hold.  malloc.cpp is not asked for 0:  *)
(* see ZeroIsServed. *)
Served == /\ object # None
          /\ request <= 2 ^ (AddressBits - 1)
          /\ entry = "malloc.cpp" => request > 0

(* The reference for the bit arithmetic: the object has the least size the *)
(* allocator offers that is not below the request, and at least one byte.  *)
SizesOffered == {sizeclass_to_size[sc] : sc \in DOMAIN sizeclass_to_size}
                \cup {2 ^ bits : bits \in LargeClasses}

SmallestFit ==
  Served => object.size = Min({s \in SizesOffered : s >= request /\ s > 0})

(* Less than a fifth of a slab object is wasted (with two mantissa bits;   *)
(* of the smallest ones, less than MinAllocSize bytes), and less than half *)
(* of a large one.                                                         *)
WasteBounded ==
  Served => LET waste == object.size - request IN
            IF object.kind = "Large" THEN 2 * waste < object.size
            ELSE \/ request = 0 \/ waste < MinAllocSize
                 \/ (2 ^ IntermediateBits + 1) * waste < object.size

(* The arrays are indexed within their bounds: a small or medium class has *)
(* a list, a large one has a stack.                                        *)
StackExists == Served /\ object.kind = "Large" => object.class \in LargeClasses

(* A slab has as many objects as fit in it, after the header page of a     *)
(* medium one, at least one, and the narrow counters hold their number     *)
(* (medium_slab::stack_ has 255 places).                                   *)
SlabsFilled ==
  Served => LET room == IF object.kind = "Small" THEN MediumThreshold
                                                 ELSE LargeThreshold - PageSize
                capacity == IF object.kind = "Small" THEN 2 ^ 16 - 1 ELSE 255
            IN  object.kind # "Large" =>
                  /\ object.slots \in 1 .. capacity
                  /\ object.slots * object.size <= room
                  /\ room < (object.slots + 1) * object.size

(* medium_slab::deallocate may decommit any of its objects: pal::decommit  *)
(* asserts that address and size are whole pages, and the addresses are    *)
(* multiples of the alignment.                                             *)
MediumIsWholePages ==
  Served /\ object.kind = "Medium" =>
    object.size % PageSize = 0 /\ object.alignment % PageSize = 0

(* What the tables say of a class is what its slab or stack can do. *)
TablesSound == StackExists /\ SlabsFilled /\ MediumIsWholePages

(* "Include size 0 in the first sizeclass" (interface.hpp). *)
ZeroIsServed == request = 0 /\ object # None => object.kind = "Small" /\ object.class = 0
=============================================================================
