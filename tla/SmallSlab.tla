------------------------------ MODULE SmallSlab ------------------------------
(***************************************************************************)
(* A small_slab: a chunk of LargeThreshold bytes that is divided into      *)
(* slabs of MediumThreshold bytes, the first of which holds one meta_slab  *)
(* for each of the others.  The free objects of a slab are a linked list   *)
(* through the objects themselves; what a caller writes into an object it  *)
(* holds goes where the link was.                                          *)
(***************************************************************************)
EXTENDS Sizeclass

CONSTANTS
  InUse,       \* the small classes that are asked for
  Scribbles    \* what callers write into their objects

nullptr == 0

Addresses == MediumThreshold .. LargeThreshold - 1

SmallSlabConstants ==
  CountersFit /\ InUse \subseteq SmallClasses /\ Scribbles \subseteq Addresses \cup {nullptr}

NumMeta == LargeThreshold \div MediumThreshold - 1

Indexes == 0 .. NumMeta - 1

VARIABLES
  stack, top,   \* of the indexes of unused meta_slabs
  sizeclass, slots, head,  \* the fields of each meta_slab
  next,         \* the first word of memory at each address
  held,         \* the objects callers hold: <<address, index of the slab it is from>>
  listed        \* the slabs that are in their owner's list

meta == <<sizeclass, slots, head>>
vars == <<stack, top, sizeclass, slots, head, next, held, listed>>

Unused == -1

Init == /\ stack = [i \in Indexes |-> i] /\ top = 0
        /\ sizeclass = [i \in Indexes |-> Unused]
        /\ slots = [i \in Indexes |-> 0]
        /\ head = [i \in Indexes |-> nullptr]
        /\ next = [a \in Addresses |-> nullptr]
        /\ held = {} /\ listed = {}

slab_address(i) == (i + 1) * MediumThreshold

(* meta_slab::get_meta_slab: the meta_slab of the slab p is in, from the   *)
(* address alone.                                                          *)
get_meta_slab(p) == Uint8((p % LargeThreshold) \div MediumThreshold - 1)

(* Mutation: one more, which does not end in the slab. *)
ObjectsOf_over(i, sc) ==
  {slab_address(i) + n * sizeclass_to_size[sc] : n \in 0 .. small_slab_slots[sc]}

(* Where init puts objects: those that end in the slab. *)
ObjectsOf(i, sc) ==
  {a \in {slab_address(i) + n * sizeclass_to_size[sc] : n \in 0 .. MediumThreshold} :
     a + sizeclass_to_size[sc] <= slab_address(i) + MediumThreshold}

(* small_slab::allocate_slab and meta_slab::init: each object is pushed on *)
(* the list in turn, so that the last one is its head.                     *)
allocate_slab(sc) ==
  LET i == stack[top]
      objects == ObjectsOf(i, sc)
  IN  /\ top < NumMeta
      /\ top' = top + 1
      /\ sizeclass' = [sizeclass EXCEPT ![i] = sc]
      /\ slots' = [slots EXCEPT ![i] = small_slab_slots[sc]]
      /\ head' = [head EXCEPT ![i] = Max(objects)]
      /\ next' = [a \in Addresses |->
                    IF a \notin objects THEN next[a]
                    ELSE Max({b \in objects : b < a} \cup {nullptr})]
      /\ listed' = listed \cup {i}
      /\ UNCHANGED <<stack, held>>

(* meta_slab::empty asserts that slots_ and head_ agree. *)
empty(i) == slots[i] = 0

(* meta_slab::allocate; a slab that is drained leaves its list. *)
allocate(i) ==
  /\ ~empty(i)
  /\ slots' = [slots EXCEPT ![i] = @ - 1]
  /\ head' = [head EXCEPT ![i] = next[head[i]]]
  /\ held' = held \cup {<<head[i], i>>}
  /\ listed' = IF slots[i] = 1 THEN listed \ {i} ELSE listed
  /\ UNCHANGED <<stack, top, sizeclass, next>>

(* Mutation: the link is not written. *)
deallocate_unlinked(obj) ==
  LET p == obj[1]
      i == get_meta_slab(p)
  IN  /\ held' = held \ {obj}
      /\ listed' = IF empty(i) THEN listed \cup {i} ELSE listed
      /\ slots' = [slots EXCEPT ![i] = @ + 1]
      /\ head' = [head EXCEPT ![i] = p]
      /\ UNCHANGED <<stack, top, sizeclass, next>>

(* meta_slab::deallocate, of the meta_slab that the address leads to. *)
deallocate(obj) ==
  LET p == obj[1]
      i == get_meta_slab(p)
  IN  /\ held' = held \ {obj}
      /\ listed' = IF empty(i) THEN listed \cup {i} ELSE listed
      /\ slots' = [slots EXCEPT ![i] = @ + 1]
      /\ next' = [next EXCEPT ![p] = head[i]]
      /\ head' = [head EXCEPT ![i] = p]
      /\ UNCHANGED <<stack, top, sizeclass>>

(* The caller writes to an object it holds. *)
Write(obj) == /\ \E v \in Scribbles : next' = [next EXCEPT ![obj[1]] = v]
              /\ UNCHANGED <<stack, top, meta, held, listed>>

Next == \/ \E sc \in InUse : allocate_slab(sc)
        \/ \E i \in Indexes : allocate(i)
        \/ \E obj \in held : deallocate(obj) \/ Write(obj)

Spec == Init /\ [][Next]_vars

-----------------------------------------------------------------------------
(* The n-th node of the list of slab i, counting from 0. *)
Node(i, n) ==
  LET node[m \in Nat] ==
        IF m = 0 THEN head[i]
        ELSE IF node[m - 1] \in Addresses THEN next[node[m - 1]] ELSE nullptr
  IN  node[n]

FreeOf(i) == {Node(i, n) : n \in 0 .. slots[i] - 1}

HeldOf(i) == {obj[1] : obj \in {obj \in held : obj[2] = i}}

InService == {i \in Indexes : sizeclass[i] # Unused}

TypeOK == /\ top \in 0 .. NumMeta
          /\ sizeclass \in [Indexes -> InUse \cup {Unused}]
          /\ slots \in [Indexes -> 0 .. MediumThreshold]
          /\ head \in [Indexes -> Addresses \cup {nullptr}]
          /\ next \in [Addresses -> Addresses \cup {nullptr}]
          /\ listed \subseteq Indexes

(* slots_ is the length of the list, which ends in nullptr and has each    *)
(* object of the slab that nobody holds: the list never runs through an    *)
(* object that a caller writes to.  (The assertion of meta_slab::empty is  *)
(* the case of slots_ = 0.)                                                *)
ListIsFreeObjects ==
  \A i \in InService :
    /\ Node(i, slots[i]) = nullptr
    /\ Cardinality(FreeOf(i)) = slots[i]
    /\ FreeOf(i) = ObjectsOf(i, sizeclass[i]) \ HeldOf(i)

(* No object overlaps another one, of its own or another slab, or the      *)
(* header.                                                                 *)
ObjectsApart ==
  \A obj, other \in {p \in Addresses \X InService : p[1] \in FreeOf(p[2]) \cup HeldOf(p[2])} :
    LET end == obj[1] + sizeclass_to_size[sizeclass[obj[2]]] IN
    /\ obj[1] >= MediumThreshold /\ end <= LargeThreshold
    /\ obj[1] < other[1] => end <= other[1]

(* The owner can find a slab whenever it has a free object. *)
ListedIffAvailable == listed = {i \in InService : slots[i] # 0}

(* Each slab's list implements the set of free objects.                    *)
Abstract(i) == INSTANCE Slab WITH Offsets <- Addresses, free <- FreeOf(i), held <- HeldOf(i)
ImplementsSlab ==
  /\ \A i \in Indexes : Abstract(i)!Init
  /\ [][\A i \in Indexes : [Abstract(i)!Next]_<<FreeOf(i), HeldOf(i)>>]_vars
=============================================================================
