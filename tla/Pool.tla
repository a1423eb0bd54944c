--------------------------------- MODULE Pool ---------------------------------
(***************************************************************************)
(* pool<T>: threads acquire and release objects of one size.  An object is *)
(* taken from the stack of released ones, else from a slab with room, else *)
(* from a new slab.  A slab that is being cut is in nobody's stack.  The   *)
(* two lock-free stacks are the sequences they linearize to.               *)
(***************************************************************************)
EXTENDS Integers, SequencesExt, FiniteSetsExt

CONSTANTS
  Threads,
  slab_size,
  allocated_size,  \* of an object, aligned
  MaxSlabs,        \* bound: slabs that are reserved
  MaxHeld          \* bound: objects held and calls under way

ASSUME PoolConstants ==
  /\ {slab_size, allocated_size} \subseteq Nat \ {0} /\ 2 * allocated_size <= slab_size
  /\ {MaxSlabs, MaxHeld} \subseteq Nat /\ IsFiniteSet(Threads)

nullptr == 0

(* Where pal::reserve<true> can put slabs. *)
Bases == {n * slab_size : n \in 1 .. MaxSlabs}

VARIABLES
  pc,        \* where each thread is in acquire
  slab,      \* its local of that name
  slabs,     \* slabs_
  objects,   \* objects_
  bump,      \* of each slab, or 0 if it has not been reserved
  held       \* the objects each thread holds

vars == <<pc, slab, slabs, objects, bump, held>>

Init == /\ pc = [t \in Threads |-> "idle"]
        /\ slab = [t \in Threads |-> nullptr]
        /\ slabs = <<>> /\ objects = <<>>
        /\ bump = [b \in Bases |-> 0]
        /\ held = [t \in Threads |-> {}]

Reserved == {b \in Bases : bump[b] # 0}

(* slab_view::empty *)
NoRoom(b) == bump[b] + allocated_size > b + slab_size

(* Mutation: the object stays on the stack until the next release. *)
PopObject_peek(t) ==
  /\ pc[t] = "idle"
  /\ \/ /\ objects # <<>>
        /\ held' = [held EXCEPT ![t] = @ \cup {Head(objects)}]
        /\ UNCHANGED <<objects, pc>>
     \/ /\ objects = <<>>
        /\ pc' = [pc EXCEPT ![t] = "slab"]
        /\ UNCHANGED <<objects, held>>
  /\ UNCHANGED <<slab, slabs, bump>>

(* acquire: objects_.pop() *)
PopObject(t) ==
  /\ pc[t] = "idle"
  /\ \/ /\ objects # <<>>
        /\ held' = [held EXCEPT ![t] = @ \cup {Head(objects)}]
        /\ objects' = Tail(objects)
        /\ UNCHANGED pc
     \/ /\ objects = <<>>
        /\ pc' = [pc EXCEPT ![t] = "slab"]
        /\ UNCHANGED <<objects, held>>
  /\ UNCHANGED <<slab, slabs, bump>>

(* slabs_.pop(), or a new slab, whose first place is its own fields'. *)
PopSlab(t) ==
  /\ pc[t] = "slab"
  /\ \/ /\ slabs # <<>>
        /\ slab' = [slab EXCEPT ![t] = Head(slabs)]
        /\ slabs' = Tail(slabs)
        /\ UNCHANGED bump
     \/ /\ slabs = <<>>
        /\ \E b \in Bases \ Reserved :
             slab' = [slab EXCEPT ![t] = b] /\ bump' = [bump EXCEPT ![b] = b + allocated_size]
        /\ UNCHANGED slabs
  /\ pc' = [pc EXCEPT ![t] = "cut"]
  /\ UNCHANGED <<objects, held>>

(* slab->allocate(): the slab is this thread's alone. *)
Cut(t) ==
  /\ pc[t] = "cut"
  /\ held' = [held EXCEPT ![t] = @ \cup {bump[slab[t]]}]
  /\ bump' = [bump EXCEPT ![slab[t]] = @ + allocated_size]
  /\ pc' = [pc EXCEPT ![t] = "push"]
  /\ UNCHANGED <<slab, slabs, objects>>

(* Mutation: the slab is dropped when the next object fills it. *)
PushSlab_early(t) ==
  /\ pc[t] = "push"
  /\ slabs' = IF bump[slab[t]] + 2 * allocated_size > slab[t] + slab_size
              THEN slabs ELSE <<slab[t]>> \o slabs
  /\ slab' = [slab EXCEPT ![t] = nullptr]
  /\ pc' = [pc EXCEPT ![t] = "idle"]
  /\ UNCHANGED <<objects, bump, held>>

PushSlab(t) ==
  /\ pc[t] = "push"
  /\ slabs' = IF NoRoom(slab[t]) THEN slabs ELSE <<slab[t]>> \o slabs
  /\ slab' = [slab EXCEPT ![t] = nullptr]
  /\ pc' = [pc EXCEPT ![t] = "idle"]
  /\ UNCHANGED <<objects, bump, held>>

(* Any thread may release any object, as remote_allocators are only        *)
(* released by their thread but T is a parameter.                          *)
Release(t, p) ==
  /\ pc[t] = "idle"
  /\ \E holder \in Threads : /\ p \in held[holder]
                             /\ held' = [held EXCEPT ![holder] = @ \ {p}]
  /\ objects' = <<p>> \o objects
  /\ UNCHANGED <<pc, slab, slabs, bump>>

Held == UNION {held[t] : t \in Threads}

(* Bounds: objects, and a slab for every thread that may need one. *)
Room == /\ Cardinality(Held) + Cardinality({t \in Threads : pc[t] # "idle"}) < MaxHeld
        /\ Cardinality(Bases \ Reserved) > Cardinality({t \in Threads : pc[t] = "slab"})

Next == \E t \in Threads :
          \/ Room /\ PopObject(t)
          \/ PopSlab(t) \/ Cut(t) \/ PushSlab(t)
          \/ \E p \in Held : Release(t, p)

Spec == Init /\ [][Next]_vars

-----------------------------------------------------------------------------
TypeOK == /\ pc \in [Threads -> {"idle", "slab", "cut", "push"}]
          /\ slab \in [Threads -> Bases \cup {nullptr}]
          /\ Range(slabs) \subseteq Reserved
          /\ \A b \in Reserved : bump[b] \in b + allocated_size .. b + slab_size

(* The objects that have been cut from a slab; its first place is not one. *)
CutFrom(b) == {p \in b + allocated_size .. bump[b] - 1 : (p - b) % allocated_size = 0}

(* An object is held by one thread or is once on the stack of released     *)
(* ones: nobody is given what somebody else has, and nothing is lost.      *)
OnePlace ==
  \A b \in Reserved : \A p \in CutFrom(b) :
    Cardinality({t \in Threads : p \in held[t]})
      + Cardinality({n \in DOMAIN objects : objects[n] = p}) = 1

(* Objects are whole, inside a slab and after its fields. *)
InsideSlab ==
  \A p \in Held \cup Range(objects) :
    \E b \in Reserved : p \in CutFrom(b) /\ p + allocated_size <= b + slab_size

(* A slab with room is on the stack once or with one thread that will push *)
(* it, so that its room is never lost; one that is full is on no stack.    *)
SlabsInOnePlace ==
  \A b \in Reserved :
    LET n == Cardinality({k \in DOMAIN slabs : slabs[k] = b})
             + Cardinality({t \in Threads : slab[t] = b})
    IN  /\ n <= 1
        /\ ~NoRoom(b) => n = 1
        /\ NoRoom(b) => b \notin Range(slabs)

(* Threads that miss the slab another one is cutting reserve slabs of      *)
(* their own, but there are never more slabs with room than threads.       *)
FewOpenSlabs == Cardinality({b \in Reserved : ~NoRoom(b)}) <= Cardinality(Threads)
=============================================================================
