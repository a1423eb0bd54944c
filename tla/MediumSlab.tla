------------------------------ MODULE MediumSlab ------------------------------
(***************************************************************************)
(* A medium_slab: a chunk of LargeThreshold bytes with a header and a      *)
(* stack of the offsets of its free objects.  Places of the stack below    *)
(* top keep what was last in them.                                         *)
(***************************************************************************)
EXTENDS Sizeclass

CONSTANT InUse   \* the medium classes the slab is used for

MediumSlabConstants == CountersFit /\ InUse \subseteq MediumClasses

Capacity == Max({medium_slab_slots[sc] : sc \in InUse})

VARIABLES
  stack, top, slots, sizeclass,
  committed,   \* the pages of the chunk that can be accessed
  held,        \* the offsets of the objects that callers hold
  listed       \* whether the slab is in its owner's list of the class

vars == <<stack, top, slots, sizeclass, committed, held, listed>>

Chunk == 0 .. LargeThreshold \div PageSize - 1

Header == 0

PagesOf(offset) ==
  offset \div PageSize .. (offset + sizeclass_to_size[sizeclass] - 1) \div PageSize

Unset == [i \in 0 .. Capacity - 1 |-> 0]

(* medium_slab::init fills the stack from the end of the chunk downwards.  *)
InitialStack(old, sc) ==
  [i \in DOMAIN old |->
     IF i < medium_slab_slots[sc]
     THEN LargeThreshold - (medium_slab_slots[sc] - i) * sizeclass_to_size[sc]
     ELSE old[i]]

empty == top = slots
full == top = 0

(* pal::reserve<true> returns a chunk that is committed. *)
Init == \E sc \in InUse :
          /\ stack = InitialStack(Unset, sc)
          /\ top = 0 /\ slots = medium_slab_slots[sc] /\ sizeclass = sc
          /\ committed = Chunk
          /\ held = {} /\ listed = TRUE

(* init of a slab that has been used and is full again (as the test of     *)
(* medium_slab does).                                                      *)
InitAgain(sc) ==
  /\ full
  /\ stack' = InitialStack(stack, sc)
  /\ slots' = medium_slab_slots[sc]
  /\ sizeclass' = sc
  /\ listed' = TRUE
  /\ UNCHANGED <<top, committed, held>>

(* Mutation: the place above the top is read.                              *)
allocate_below ==
  /\ ~empty
  /\ held' = held \cup {stack[IF top = 0 THEN 0 ELSE top - 1]}
  /\ top' = top + 1
  /\ listed' = (top + 1 # slots)
  /\ UNCHANGED <<stack, slots, sizeclass, committed>>

(* The owner takes a slab that is drained out of its list. *)
allocate ==
  /\ ~empty
  /\ held' = held \cup {stack[top]}
  /\ top' = top + 1
  /\ listed' = (top + 1 # slots)
  /\ UNCHANGED <<stack, slots, sizeclass, committed>>

(* Mutation: a page too many. *)
deallocate_wide(offset) ==
  /\ offset \in held
  /\ held' = held \ {offset}
  /\ committed' = committed \ {page \in Chunk : page \in PagesOf(offset) \/ page - 1 \in PagesOf(offset)}
  /\ stack' = [stack EXCEPT ![top - 1] = offset]
  /\ top' = top - 1
  /\ listed' = (listed \/ empty)
  /\ UNCHANGED <<slots, sizeclass>>

(* The object is decommitted and pushed; if the slab was drained, its      *)
(* owner puts it back into its list.                                       *)
deallocate(offset) ==
  /\ offset \in held
  /\ held' = held \ {offset}
  /\ committed' = committed \ PagesOf(offset)
  /\ stack' = [stack EXCEPT ![top - 1] = offset]
  /\ top' = top - 1
  /\ listed' = (listed \/ empty)
  /\ UNCHANGED <<slots, sizeclass>>

Next == \/ \E sc \in InUse : InitAgain(sc)
        \/ allocate
        \/ \E offset \in held : deallocate(offset)

Spec == Init /\ [][Next]_vars

-----------------------------------------------------------------------------
free == {stack[i] : i \in top .. slots - 1}

TypeOK == /\ sizeclass \in InUse
          /\ slots \in 1 .. Capacity /\ top \in 0 .. slots
          /\ stack \in [0 .. Capacity - 1 -> 0 .. LargeThreshold - 1]
          /\ committed \subseteq Chunk

(* Whatever the order of the frees, the free and the held objects are as   *)
(* many as the slab has slots, and they overlap neither each other nor the *)
(* header nor the end of the chunk.                                        *)
ObjectsApart ==
  /\ Cardinality(free \cup held) = slots
  /\ Cardinality(free) = slots - top
  /\ \A o \in free \cup held :
       /\ PagesOf(o) \subseteq Chunk \ {Header}
       /\ \A other \in (free \cup held) \ {o} : PagesOf(o) \cap PagesOf(other) = {}

(* The owner can find the slab whenever it has a free object. *)
ListedIffAvailable == listed <=> free # {}

(* Nothing takes the memory of an object away while it is held, or that of *)
(* the header, where the stack is.                                         *)
HeldUndisturbed ==
  [][LET used == {Header} \cup UNION {PagesOf(o) : o \in held \cap held'}
     IN  committed \cap used \subseteq committed']_vars

(* The stack of offsets implements the set of free objects.                *)
Abstract == INSTANCE Slab WITH Offsets <- 0 .. LargeThreshold - 1
ImplementsSlab == Abstract!Spec

(* What malloc returns can be written to: the tests do so with every       *)
(* object (test/src/medium_alloc.cpp).                                     *)
HeldIsCommitted == \A o \in held : PagesOf(o) \subseteq committed
=============================================================================
