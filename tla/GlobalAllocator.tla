---------------------------- MODULE GlobalAllocator ----------------------------
(***************************************************************************)
(* global_allocator: large blocks, one lock-free stack of freed ones for   *)
(* each power of two, shared by all threads.  A block's pages but the      *)
(* first, where the stack keeps its link, are decommitted before the block *)
(* is pushed.  Stacks are the sequences they linearize to.                 *)
(***************************************************************************)
EXTENDS Sizeclass, Sequences

CONSTANTS
  Threads,
  Requests,   \* the sizes that are asked for
  MaxHeld,    \* bound: blocks held and calls under way
  MaxBlocks   \* bound: blocks reserved

(* A size class is stored in a uint8_t. *)
GlobalConstants ==
  /\ SizesFit /\ AddressBits <= 2 ^ 8 /\ IsFiniteSet(Threads)
  /\ Requests \subseteq LargeThreshold .. 2 ^ (AddressBits - 1)
  /\ {MaxHeld, MaxBlocks} \subseteq Nat

nullptr == 0

Chunks == {n * LargeThreshold : n \in 1 .. 2 ^ (AddressBits - LargeThresholdBits) - 1}

PagesOf(p, bits) == p \div PageSize .. (p + 2 ^ bits - 1) \div PageSize

VARIABLES
  pc,          \* where each thread is
  ptr, size,   \* the block and the request it works on
  large_stack,
  pagemap,     \* the kind of each chunk: a size class, or 0 for Wild
  blocks,      \* what has been reserved: <<address, bits>>
  committed,   \* the pages that can be accessed
  held,        \* the blocks of callers: <<address, the size they asked for>>
  peak         \* history: the most blocks of a class that were in use at once

vars == <<pc, ptr, size, large_stack, pagemap, blocks, committed, held, peak>>

Init == /\ pc = [t \in Threads |-> "idle"]
        /\ ptr = [t \in Threads |-> nullptr]
        /\ size = [t \in Threads |-> 0]
        /\ large_stack = [sc \in LargeClasses |-> <<>>]
        /\ pagemap = [p \in Chunks |-> 0]
        /\ blocks = {} /\ committed = {} /\ held = {}
        /\ peak = [sc \in LargeClasses |-> 0]

ClassOf(request) == Uint8(next_pow2_bits(request))

Reserving == {t \in Threads : pc[t] = "reserve"}

(* The blocks of a class that are not in its stack, with those that are    *)
(* being reserved. *)
InUse(sc) == Cardinality({b \in blocks : b[2] = sc}) - Len(large_stack[sc])
             + Cardinality({t \in Reserving : ClassOf(size[t]) = sc})

Called(sc) == peak' = [peak EXCEPT ![sc] = Max({@, InUse(sc) + 1})]

(* allocate: the last block that was freed ... *)
Pop(t, request) ==
  LET sc == ClassOf(request) IN
  /\ pc[t] = "idle"
  /\ large_stack[sc] # <<>>
  /\ held' = held \cup {<<Head(large_stack[sc]), request>>}
  /\ large_stack' = [large_stack EXCEPT ![sc] = Tail(@)]
  /\ Called(sc)
  /\ UNCHANGED <<pc, ptr, size, pagemap, blocks, committed>>

(* Mutation: a new one is reserved in any case. *)
PopNothing_always(t, request) ==
  /\ pc[t] = "idle"
  /\ pc' = [pc EXCEPT ![t] = "reserve"]
  /\ size' = [size EXCEPT ![t] = request]
  /\ Called(ClassOf(request))
  /\ UNCHANGED <<ptr, large_stack, pagemap, blocks, committed, held>>

(* ... or there is none, and a new one is reserved ... *)
PopNothing(t, request) ==
  LET sc == ClassOf(request) IN
  /\ pc[t] = "idle"
  /\ large_stack[sc] = <<>>
  /\ pc' = [pc EXCEPT ![t] = "reserve"]
  /\ size' = [size EXCEPT ![t] = request]
  /\ Called(sc)
  /\ UNCHANGED <<ptr, large_stack, pagemap, blocks, committed, held>>

(* pal::reserve<true> returns committed, aligned memory that nobody has. *)
Unreserved(bits) ==
  {p \in Chunks : /\ p % 2 ^ bits = 0
                  /\ \A b \in blocks : PagesOf(p, bits) \cap PagesOf(b[1], b[2]) = {}}

Reserve(t) ==
  LET bits == ClassOf(size[t]) IN
  /\ pc[t] = "reserve"
  /\ \E p \in Unreserved(bits) :
       /\ ptr' = [ptr EXCEPT ![t] = p]
       /\ blocks' = blocks \cup {<<p, bits>>}
       /\ committed' = committed \cup PagesOf(p, bits)
  /\ pc' = [pc EXCEPT ![t] = "store"]
  /\ UNCHANGED <<size, large_stack, pagemap, held, peak>>

Finish(t) == /\ pc' = [pc EXCEPT ![t] = "idle"]
             /\ ptr' = [ptr EXCEPT ![t] = nullptr]
             /\ size' = [size EXCEPT ![t] = 0]

(* ... whose class deallocate will find in the page map. *)
Store(t) ==
  /\ pc[t] = "store"
  /\ pagemap' = [pagemap EXCEPT ![ptr[t]] = ClassOf(size[t])]
  /\ held' = held \cup {<<ptr[t], size[t]>>}
  /\ Finish(t)
  /\ UNCHANGED <<large_stack, blocks, committed, peak>>

-----------------------------------------------------------------------------
(* Mutation: the block is pushed before it is decommitted. *)
After_swapped(stage) ==
  CASE stage = "deallocate" -> "push" [] stage = "push" -> "decommit" [] OTHER -> "idle"

(* The order of the calls in deallocate. *)
After(stage) ==
  CASE stage = "deallocate" -> "decommit" [] stage = "decommit" -> "push" [] OTHER -> "idle"

Go(t, stage, p) ==
  /\ pc' = [pc EXCEPT ![t] = After(stage)]
  /\ ptr' = [ptr EXCEPT ![t] = IF After(stage) = "idle" THEN nullptr ELSE p]

Deallocate(t, obj) ==
  /\ pc[t] = "idle"
  /\ held' = held \ {obj}
  /\ Go(t, "deallocate", obj[1])
  /\ UNCHANGED <<size, large_stack, pagemap, blocks, committed, peak>>

(* Mutation: no page is saved. *)
Decommit_all(t) ==
  /\ pc[t] = "decommit"
  /\ committed' = committed \ PagesOf(ptr[t], pagemap[ptr[t]])
  /\ Go(t, "decommit", ptr[t])
  /\ UNCHANGED <<size, large_stack, pagemap, blocks, held, peak>>

(* "Save one page to be used as treiber_stack's node." *)
Decommit(t) ==
  /\ pc[t] = "decommit"
  /\ committed' = committed \ (PagesOf(ptr[t], pagemap[ptr[t]]) \ {ptr[t] \div PageSize})
  /\ Go(t, "decommit", ptr[t])
  /\ UNCHANGED <<size, large_stack, pagemap, blocks, held, peak>>

Push(t) ==
  /\ pc[t] = "push"
  /\ large_stack' = [large_stack EXCEPT ![pagemap[ptr[t]]] = <<ptr[t]>> \o @]
  /\ Go(t, "push", ptr[t])
  /\ UNCHANGED <<size, pagemap, blocks, committed, held, peak>>

(* Bounds on the blocks in use, and on those reserved or to be reserved. *)
Room(request) ==
  /\ Cardinality(held) + Cardinality({t \in Threads : pc[t] # "idle"}) < MaxHeld
  /\ large_stack[ClassOf(request)] # <<>> \/ Cardinality(blocks) + Cardinality(Reserving) < MaxBlocks

Next == \E t \in Threads :
          \/ \E request \in Requests : Room(request) /\ (Pop(t, request) \/ PopNothing(t, request))
          \/ Reserve(t) \/ Store(t)
          \/ \E obj \in held : Deallocate(t, obj)
          \/ Decommit(t) \/ Push(t)

Spec == Init /\ [][Next]_vars

-----------------------------------------------------------------------------
Stacked(sc) == {large_stack[sc][n] : n \in DOMAIN large_stack[sc]}

TypeOK == /\ pc \in [Threads -> {"idle", "reserve", "store", "decommit", "push"}]
          /\ ptr \in [Threads -> Chunks \cup {nullptr}]
          /\ blocks \subseteq Chunks \X LargeClasses
          /\ pagemap \in [Chunks -> LargeClasses \cup {0}]
          /\ held \subseteq Chunks \X Requests

(* Every block that was reserved is in one place: held once, in a call of  *)
(* one thread, or once in the stack of its own class.                      *)
OnePlace ==
  \A b \in blocks :
    Cardinality({obj \in held : obj[1] = b[1]})
      + Cardinality({t \in Threads : pc[t] # "idle" /\ ptr[t] = b[1]})
      + Cardinality({n \in DOMAIN large_stack[b[2]] : large_stack[b[2]][n] = b[1]}) = 1

(* Recycled or new, a block is as large as its caller asked for, and the   *)
(* page map knows how large.                                               *)
BigEnough ==
  \A obj \in held : \E b \in blocks :
    b[1] = obj[1] /\ obj[2] <= 2 ^ b[2] /\ pagemap[b[1]] = b[2]

(* A stack never loses the page in which its links are. *)
NodesCommitted ==
  \A sc \in LargeClasses : \A p \in Stacked(sc) : p \div PageSize \in committed

(* Nothing is decommitted under a caller: a block that another thread pops *)
(* is no longer touched by the one that pushed it.                         *)
HeldUndisturbed ==
  [][\A b \in blocks :
       (\E obj \in held \cap held' : obj[1] = b[1])
         => committed \cap PagesOf(b[1], b[2]) \subseteq committed']_vars

(* The memory of a class is that of the most blocks of it that were in use *)
(* at once: freed blocks are always reused before new ones are reserved.   *)
ReusedBeforeReserved ==
  \A sc \in LargeClasses : Cardinality({b \in blocks : b[2] = sc}) <= peak[sc]
=============================================================================
