-------------------------- MODULE SharedPartsProofs --------------------------
(***************************************************************************)
(* What the threads share, proved for any number of threads and requests   *)
(* and every size of the address space: the pool of remote_allocators, the *)
(* large blocks, and the two together.                                     *)
(***************************************************************************)
EXTENDS SharedParts, DataLemmas

-----------------------------------------------------------------------------
(* The inductive invariant of the pool. *)
PoolTypes ==
  /\ TypeOK
  /\ slabs \in Seq(Bases)
  /\ objects \in Seq(Nat)
  /\ bump \in [Bases -> Nat]
  /\ held \in [Threads -> SUBSET Nat]

(* A thread has a slab while it cuts and pushes one, and before it cuts    *)
(* there is room. *)
PoolControl ==
  \A t \in Threads :
    /\ pc[t] \in {"idle", "slab"} => slab[t] = nullptr
    /\ pc[t] \in {"cut", "push"} => slab[t] \in Reserved
    /\ pc[t] = "cut" => ~NoRoom(slab[t])

(* What has been cut is a whole number of objects. *)
CutWhole == \A b \in Reserved : (bump[b] - b) % allocated_size = 0

(* Slabs with room are on the stack or with a thread. *)
SlabsPlaced ==
  /\ IsInjective(slabs)
  /\ \A b \in Range(slabs) : ~NoRoom(b)
  /\ \A t \in Threads : slab[t] \notin Range(slabs)
  /\ \A t, u \in Threads : slab[t] = slab[u] /\ slab[t] # nullptr => t = u
  /\ \A b \in Reserved : ~NoRoom(b) => b \in Range(slabs) \/ \E t \in Threads : slab[t] = b

(* Objects are held or on the stack, and these are the ones that were cut. *)
ObjectsPlaced ==
  /\ IsInjective(objects)
  /\ \A t \in Threads : held[t] \cap Range(objects) = {}
  /\ \A t, u \in Threads : t # u => held[t] \cap held[u] = {}
  /\ \A p \in Held \cup Range(objects) : \E b \in Reserved : p \in CutFrom(b)
  /\ \A b \in Reserved : CutFrom(b) \subseteq Held \cup Range(objects)

PoolIInv == PoolTypes /\ PoolControl /\ CutWhole /\ SlabsPlaced /\ ObjectsPlaced /\ FewOpenSlabs

-----------------------------------------------------------------------------
(* Slabs are apart: what lies in one is in no other. *)
LEMMA BasesApart ==
  ASSUME NEW b \in Bases, NEW c \in Bases, NEW p \in Nat,
         b <= p, p < b + slab_size, c <= p, p < c + slab_size
  PROVE  b = c
<1> SUFFICES ASSUME b # c PROVE FALSE
  OBVIOUS
<1>1. PICK m \in 1 .. MaxSlabs : b = m * slab_size
  BY DEF Bases
<1>2. PICK n \in 1 .. MaxSlabs : c = n * slab_size
  BY DEF Bases
<1>3. slab_size \in Nat /\ slab_size > 0 /\ MaxSlabs \in Nat
  BY PoolConstants
<1>4. m \in Int /\ n \in Int /\ (m < n \/ n < m)
  BY <1>1, <1>2, <1>3
<1>5. m * slab_size \in Int /\ n * slab_size \in Int
  BY <1>3, <1>4
<1>6. CASE m < n
  <2>1. m * slab_size + slab_size <= n * slab_size
    BY <1>3, <1>4, <1>6, MultMono
  <2>2. b \in Int /\ c \in Int /\ b + slab_size <= c
    BY <1>1, <1>2, <1>5, <2>1
  <2> QED BY <2>2, <1>3
<1>7. CASE n < m
  <2>1. n * slab_size + slab_size <= m * slab_size
    BY <1>3, <1>4, <1>7, MultMono
  <2>2. b \in Int /\ c \in Int /\ c + slab_size <= b
    BY <1>1, <1>2, <1>5, <2>1
  <2> QED BY <2>2, <1>3
<1> QED BY <1>4, <1>6, <1>7

(* Slabs have addresses other than nullptr.                                *)
LEMMA BaseAddress ==
  ASSUME NEW b \in Bases
  PROVE  b \in Nat /\ b > 0
<1>1. PICK m \in 1 .. MaxSlabs : b = m * slab_size
  BY DEF Bases
<1>2. slab_size \in Nat /\ slab_size > 0 /\ MaxSlabs \in Nat
  BY PoolConstants
<1>3. m \in Int /\ 0 < m
  BY <1>1, <1>2
<1>4. 0 * slab_size + slab_size <= m * slab_size
  BY <1>2, <1>3, MultMono
<1>5. m * slab_size \in Int
  BY <1>2, <1>3
<1> QED BY <1>1, <1>2, <1>4, <1>5

(* Two multiples of a with no multiple between them are equal. *)
LEMMA NextMultiple ==
  ASSUME NEW x \in Nat, NEW y \in Nat, NEW a \in Nat, a > 0,
         x % a = 0, y % a = 0, x < y
  PROVE  x + a <= y
<1>1. x \div a \in Nat /\ x = (x \div a) * a + (x % a)
  BY QuotRem
<1>2. y \div a \in Nat /\ y = (y \div a) * a + (y % a)
  BY QuotRem
<1> DEFINE m == x \div a
           n == y \div a
<1> HIDE DEF m, n
<1>3. m \in Nat /\ n \in Nat /\ x = m * a /\ y = n * a
  <2>1. x = m * a + 0 /\ y = n * a + 0 /\ m \in Nat /\ n \in Nat
    BY <1>1, <1>2 DEF m, n
  <2>2. m * a \in Nat /\ n * a \in Nat
    BY <2>1
  <2> QED BY <2>1, <2>2
<1>4. m < n
  <2> SUFFICES ASSUME n <= m PROVE FALSE
    BY <1>3
  <2>1. CASE n = m
    BY <2>1, <1>3
  <2>2. CASE n < m
    <3>1. n * a + a <= m * a
      BY <1>3, <2>2, MultMono
    <3> QED BY <3>1, <1>3
  <2> QED BY <2>1, <2>2, <1>3
<1>5. m * a + a <= n * a
  BY <1>3, <1>4, MultMono
<1> QED BY <1>3, <1>5

(* One more multiple is a multiple.                                        *)
LEMMA SumRem ==
  ASSUME NEW x \in Nat, NEW a \in Nat, a > 0, x % a = 0
  PROVE  (x + a) % a = 0
<1>1. x \div a \in Nat /\ x = (x \div a) * a + (x % a)
  BY QuotRem
<1> DEFINE m == x \div a
<1> HIDE DEF m
<1>2. m \in Nat /\ x = m * a
  <2>1. x = m * a + 0 /\ m \in Nat
    BY <1>1 DEF m
  <2>2. m * a \in Nat
    BY <2>1
  <2> QED BY <2>1, <2>2
<1>3. (m + 1) * a + 0 = x + a
  BY <1>2
<1>4. ((m + 1) * a + 0) % a = 0
  BY <1>2, RemOfSum
<1> QED BY <1>3, <1>4
-----------------------------------------------------------------------------
(* A slab has room for the object that is handed out and one more.         *)
LEMMA PoolSizes ==
  /\ allocated_size \in Nat /\ allocated_size > 0
  /\ slab_size \in Nat /\ slab_size > 0
  /\ allocated_size + allocated_size <= slab_size
BY PoolConstants

(* The pool's invariant holds at first.                                    *)
LEMMA PoolInit == Init => PoolIInv
<1> SUFFICES ASSUME Init PROVE PoolIInv
  OBVIOUS
<1>1. Reserved = {} /\ Range(slabs) = {} /\ Range(objects) = {} /\ Held = {}
  BY DEF Init, Reserved, Range, Held
<1>2. PoolTypes
  BY <1>1 DEF Init, PoolTypes, TypeOK
<1>3. PoolControl /\ CutWhole
  BY <1>1 DEF Init, PoolControl, CutWhole
<1>4. SlabsPlaced
  BY <1>1 DEF Init, SlabsPlaced, IsInjective
<1>5. ObjectsPlaced
  BY <1>1 DEF Init, ObjectsPlaced, IsInjective
<1>6. FewOpenSlabs
  <2>1. {b \in Reserved : ~NoRoom(b)} = {}
    BY <1>1
  <2>2. Cardinality(Threads) \in Nat
    BY PoolConstants, FS_CardinalityType
  <2> QED BY <2>1, <2>2, FS_EmptySet DEF FewOpenSlabs
<1> QED BY <1>2, <1>3, <1>4, <1>5, <1>6 DEF PoolIInv

(* What the slabs' invariants speak of, unchanged. *)
LEMMA SlabsKept ==
  ASSUME UNCHANGED bump
  PROVE  /\ Reserved' = Reserved
         /\ \A b \in Bases : (NoRoom(b))' = NoRoom(b) /\ (CutFrom(b))' = CutFrom(b)
         /\ CutWhole => CutWhole'
         /\ FewOpenSlabs => FewOpenSlabs'
BY DEF Reserved, NoRoom, CutFrom, CutWhole, FewOpenSlabs

(* An object comes from the stack, or there is none. *)
LEMMA PopObjectStep ==
  ASSUME PoolIInv, NEW t \in Threads, PopObject(t)
  PROVE  PoolIInv'
<1>1. PoolTypes /\ PoolControl /\ CutWhole /\ SlabsPlaced /\ ObjectsPlaced /\ FewOpenSlabs
  BY DEF PoolIInv
<1>2. /\ pc \in [Threads -> {"idle", "slab", "cut", "push"}]
      /\ held \in [Threads -> SUBSET Nat] /\ objects \in Seq(Nat)
  BY <1>1 DEF PoolTypes, TypeOK
<1>3. UNCHANGED <<slab, slabs, bump>> /\ pc[t] = "idle"
  BY DEF PopObject
<1>4. /\ Reserved' = Reserved
      /\ \A b \in Bases : (NoRoom(b))' = NoRoom(b) /\ (CutFrom(b))' = CutFrom(b)
      /\ CutWhole' /\ FewOpenSlabs'
  BY <1>1, <1>3, SlabsKept
<1>5. Reserved \subseteq Bases
  BY DEF Reserved
<1>6. CASE objects # <<>> /\ held' = [held EXCEPT ![t] = @ \cup {Head(objects)}]
           /\ objects' = Tail(objects) /\ UNCHANGED pc
  <2> DEFINE h == Head(objects)
  <2>1. h \in Nat /\ objects' \in Seq(Nat) /\ h \in Range(objects)
    BY <1>2, <1>6, SeqTail
  <2>2. IsInjective(objects') /\ Range(objects') = Range(objects) \ {h}
    BY <1>1, <1>2, <1>6, InjectiveTail DEF ObjectsPlaced
  <2> HIDE DEF h
  <2>3. held' = [held EXCEPT ![t] = @ \cup {h}]
    BY <1>6 DEF h
  <2>4. /\ held' \in [Threads -> SUBSET Nat] /\ held'[t] = held[t] \cup {h}
        /\ \A u \in Threads : u # t => held'[u] = held[u]
    BY <1>2, <2>1, <2>3
  <2>5. PoolTypes'
    BY <1>1, <1>3, <1>4, <1>6, <2>1, <2>4 DEF PoolTypes, TypeOK
  <2>6. PoolControl'
    BY <1>1, <1>2, <1>3, <1>4, <1>5, <1>6 DEF PoolControl
  <2>7. SlabsPlaced'
    BY <1>1, <1>3, <1>4, <1>5 DEF SlabsPlaced, PoolTypes, TypeOK
  <2>8. Held' = Held \cup {h}
    BY <2>4 DEF Held
  <2>9. ObjectsPlaced'
    <3>1. /\ \A u \in Threads : held[u] \cap Range(objects) = {}
          /\ \A u, v \in Threads : u # v => held[u] \cap held[v] = {}
          /\ \A p \in Held \cup Range(objects) : \E b \in Reserved : p \in CutFrom(b)
          /\ \A b \in Reserved : CutFrom(b) \subseteq Held \cup Range(objects)
      BY <1>1 DEF ObjectsPlaced
    <3>2. \A u \in Threads : held'[u] \cap Range(objects') = {}
      BY <2>2, <2>4, <3>1
    <3>3. \A u, v \in Threads : u # v => held'[u] \cap held'[v] = {}
      BY <2>1, <2>4, <3>1
    <3>4. Held' \cup Range(objects') = Held \cup Range(objects)
      BY <2>1, <2>2, <2>8
    <3>5. \A p \in (Held \cup Range(objects))' : \E b \in Reserved' : p \in (CutFrom(b))'
      BY <1>4, <1>5, <3>1, <3>4
    <3>6. \A b \in Reserved' : (CutFrom(b))' \subseteq (Held \cup Range(objects))'
      BY <1>4, <1>5, <3>1, <3>4
    <3> QED BY <2>2, <3>2, <3>3, <3>5, <3>6 DEF ObjectsPlaced
  <2> QED BY <1>4, <2>5, <2>6, <2>7, <2>9 DEF PoolIInv
<1>7. CASE objects = <<>> /\ pc' = [pc EXCEPT ![t] = "slab"] /\ UNCHANGED <<objects, held>>
  <2>1. PoolTypes'
    BY <1>1, <1>2, <1>3, <1>4, <1>7 DEF PoolTypes, TypeOK
  <2>2. PoolControl'
    BY <1>1, <1>2, <1>3, <1>4, <1>5, <1>7 DEF PoolControl
  <2>3. SlabsPlaced'
    BY <1>1, <1>3, <1>4, <1>5 DEF SlabsPlaced, PoolTypes, TypeOK
  <2>4. ObjectsPlaced'
    BY <1>1, <1>4, <1>5, <1>7 DEF ObjectsPlaced, Held
  <2> QED BY <1>4, <2>1, <2>2, <2>3, <2>4 DEF PoolIInv
<1> QED BY <1>6, <1>7 DEF PopObject

(* Any thread puts an object on the stack that somebody holds. *)
LEMMA ReleaseStep ==
  ASSUME PoolIInv, NEW t \in Threads, NEW p \in Held, Release(t, p)
  PROVE  PoolIInv'
<1>1. PoolTypes /\ PoolControl /\ CutWhole /\ SlabsPlaced /\ ObjectsPlaced /\ FewOpenSlabs
  BY DEF PoolIInv
<1>2. held \in [Threads -> SUBSET Nat] /\ objects \in Seq(Nat)
  BY <1>1 DEF PoolTypes, TypeOK
<1>3. UNCHANGED <<pc, slab, slabs, bump>> /\ objects' = <<p>> \o objects
  BY DEF Release
<1>4. /\ Reserved' = Reserved
      /\ \A b \in Bases : (NoRoom(b))' = NoRoom(b) /\ (CutFrom(b))' = CutFrom(b)
      /\ CutWhole' /\ FewOpenSlabs'
  BY <1>1, <1>3, SlabsKept
<1>5. Reserved \subseteq Bases
  BY DEF Reserved
<1>6. PICK u \in Threads : p \in held[u] /\ held' = [held EXCEPT ![u] = @ \ {p}]
  BY DEF Release
<1>7. /\ held' \in [Threads -> SUBSET Nat] /\ held'[u] = held[u] \ {p}
      /\ \A v \in Threads : v # u => held'[v] = held[v]
  BY <1>2, <1>6
<1>8. /\ \A v \in Threads : held[v] \cap Range(objects) = {}
      /\ \A v, w \in Threads : v # w => held[v] \cap held[w] = {}
      /\ \A q \in Held \cup Range(objects) : \E b \in Reserved : q \in CutFrom(b)
      /\ \A b \in Reserved : CutFrom(b) \subseteq Held \cup Range(objects)
  BY <1>1 DEF ObjectsPlaced
<1>9. p \notin Range(objects) /\ p \in Nat
  BY <1>2, <1>6, <1>8
<1>10. IsInjective(objects') /\ objects' \in Seq(Nat) /\ Range(objects') = {p} \cup Range(objects)
  BY <1>1, <1>2, <1>3, <1>9, SeqCons, InjectiveCons DEF ObjectsPlaced
<1>11. PoolTypes'
  BY <1>1, <1>3, <1>4, <1>7, <1>10 DEF PoolTypes, TypeOK
<1>12. PoolControl'
  BY <1>1, <1>3, <1>4, <1>5 DEF PoolControl
<1>13. SlabsPlaced'
  BY <1>1, <1>3, <1>4, <1>5 DEF SlabsPlaced, PoolTypes, TypeOK
<1>14. ObjectsPlaced'
  <2>1. \A v \in Threads : p \in held[v] => v = u
    BY <1>6, <1>8
  <2>2. \A v \in Threads : held'[v] \cap Range(objects') = {}
    BY <1>7, <1>8, <1>10, <2>1
  <2>3. \A v, w \in Threads : v # w => held'[v] \cap held'[w] = {}
    BY <1>7, <1>8
  <2>4. Held' = Held \ {p}
    BY <1>7, <2>1 DEF Held
  <2>5. Held' \cup Range(objects') = Held \cup Range(objects)
    BY <1>10, <2>4
  <2>6. \A q \in (Held \cup Range(objects))' : \E b \in Reserved' : q \in (CutFrom(b))'
    BY <1>4, <1>5, <1>8, <2>5
  <2>7. \A b \in Reserved' : (CutFrom(b))' \subseteq (Held \cup Range(objects))'
    BY <1>4, <1>5, <1>8, <2>5
  <2> QED BY <1>10, <2>2, <2>3, <2>6, <2>7 DEF ObjectsPlaced
<1> QED BY <1>4, <1>11, <1>12, <1>13, <1>14 DEF PoolIInv
(* A thread takes a slab with room, or the next base for a new one when    *)
(* there is no slab on the stack. *)
LEMMA PopSlabStep ==
  ASSUME PoolIInv, NEW t \in Threads, PopSlab(t)
  PROVE  PoolIInv'
<1>1. PoolTypes /\ PoolControl /\ CutWhole /\ SlabsPlaced /\ ObjectsPlaced /\ FewOpenSlabs
  BY DEF PoolIInv
<1>2. /\ pc \in [Threads -> {"idle", "slab", "cut", "push"}]
      /\ slab \in [Threads -> Bases \cup {nullptr}]
      /\ slabs \in Seq(Bases) /\ bump \in [Bases -> Nat]
      /\ Range(slabs) \subseteq Reserved
      /\ \A b \in Reserved : bump[b] \in b + allocated_size .. b + slab_size
  BY <1>1 DEF PoolTypes, TypeOK
<1>3. /\ pc[t] = "slab" /\ UNCHANGED <<objects, held>>
      /\ pc' = [pc EXCEPT ![t] = "cut"]
  BY DEF PopSlab
<1>4. slab[t] = nullptr
  BY <1>1, <1>3 DEF PoolControl
<1>5. Reserved \subseteq Bases /\ \A b \in Bases : b \in Nat /\ b > 0 /\ b # nullptr
  BY BaseAddress DEF Reserved, nullptr
<1>6. /\ IsInjective(slabs)
      /\ \A b \in Range(slabs) : ~NoRoom(b)
      /\ \A u \in Threads : slab[u] \notin Range(slabs)
      /\ \A u, v \in Threads : slab[u] = slab[v] /\ slab[u] # nullptr => u = v
      /\ \A b \in Reserved : ~NoRoom(b) => b \in Range(slabs) \/ \E u \in Threads : slab[u] = b
  BY <1>1 DEF SlabsPlaced
<1>7. \A u \in Threads : slab[u] \in Reserved \cup {nullptr}
  BY <1>1, <1>2 DEF PoolControl
<1>8. CASE slabs # <<>> /\ slab' = [slab EXCEPT ![t] = Head(slabs)] /\ slabs' = Tail(slabs)
           /\ UNCHANGED bump
  <2> DEFINE h == Head(slabs)
  <2>1. h \in Range(slabs) /\ slabs' \in Seq(Bases)
    BY <1>2, <1>8, SeqTail
  <2>2. IsInjective(slabs') /\ Range(slabs') = Range(slabs) \ {h}
    BY <1>2, <1>6, <1>8, InjectiveTail
  <2> HIDE DEF h
  <2>3. slab' = [slab EXCEPT ![t] = h]
    BY <1>8 DEF h
  <2>4. h \in Reserved /\ h \in Bases /\ h # nullptr /\ ~NoRoom(h)
    BY <1>2, <1>5, <1>6, <2>1
  <2>5. /\ slab' \in [Threads -> Bases \cup {nullptr}] /\ slab'[t] = h
        /\ \A u \in Threads : u # t => slab'[u] = slab[u]
    BY <1>2, <2>3, <2>4
  <2>6. /\ pc' \in [Threads -> {"idle", "slab", "cut", "push"}] /\ pc'[t] = "cut"
        /\ \A u \in Threads : u # t => pc'[u] = pc[u]
    BY <1>2, <1>3
  <2>7. /\ Reserved' = Reserved
        /\ \A b \in Bases : (NoRoom(b))' = NoRoom(b) /\ (CutFrom(b))' = CutFrom(b)
        /\ CutWhole' /\ FewOpenSlabs'
    BY <1>1, <1>8, SlabsKept
  <2>8. PoolTypes'
    BY <1>1, <1>2, <1>3, <1>8, <2>1, <2>2, <2>5, <2>6, <2>7 DEF PoolTypes, TypeOK
  <2>9. PoolControl'
    BY <1>1, <1>5, <2>4, <2>5, <2>6, <2>7 DEF PoolControl
  <2>10. SlabsPlaced'
    <3>1. \A u \in Threads : slab'[u] \notin Range(slabs')
      BY <1>6, <2>2, <2>5
    <3>2. \A u, v \in Threads : slab'[u] = slab'[v] /\ slab'[u] # nullptr => u = v
      BY <1>6, <2>1, <2>5
    <3>3. \A b \in Reserved : ~NoRoom(b) => b \in Range(slabs') \/ \E u \in Threads : slab'[u] = b
      BY <1>4, <1>5, <1>6, <2>2, <2>5
    <3>4. \A b \in Range(slabs') : ~NoRoom(b) /\ b \in Bases
      BY <1>2, <1>5, <1>6, <2>2
    <3> QED BY <1>5, <2>2, <2>7, <3>1, <3>2, <3>3, <3>4 DEF SlabsPlaced
  <2>11. ObjectsPlaced'
    BY <1>1, <1>3, <1>5, <2>7 DEF ObjectsPlaced, Held
  <2> QED BY <2>7, <2>8, <2>9, <2>10, <2>11 DEF PoolIInv
<1>9. ASSUME NEW b \in Bases \ Reserved, slabs = <<>>, slab' = [slab EXCEPT ![t] = b],
             bump' = [bump EXCEPT ![b] = b + allocated_size], UNCHANGED slabs
      PROVE  PoolIInv'
  <2>1. /\ b \in Bases /\ b \in Nat /\ b # nullptr /\ b > 0
        /\ allocated_size \in Nat /\ allocated_size > 0 /\ slab_size \in Nat
        /\ allocated_size + allocated_size <= slab_size
    BY <1>5, <1>9, PoolSizes
  <2>2. /\ slab' \in [Threads -> Bases \cup {nullptr}] /\ slab'[t] = b
        /\ \A u \in Threads : u # t => slab'[u] = slab[u]
    BY <1>2, <1>9
  <2>3. /\ pc' \in [Threads -> {"idle", "slab", "cut", "push"}] /\ pc'[t] = "cut"
        /\ \A u \in Threads : u # t => pc'[u] = pc[u]
    BY <1>2, <1>3
  <2>4. /\ bump' \in [Bases -> Nat] /\ bump'[b] = b + allocated_size
        /\ \A c \in Bases : c # b => bump'[c] = bump[c]
    BY <1>2, <1>9, <2>1
  <2>5. Reserved' = Reserved \cup {b}
    <3>1. bump'[b] # 0
      BY <2>1, <2>4
    <3> QED BY <2>1, <2>4, <3>1 DEF Reserved
  <2>6. \A c \in Bases : c # b => (NoRoom(c))' = NoRoom(c) /\ (CutFrom(c))' = CutFrom(c)
    BY <2>4 DEF NoRoom, CutFrom
  <2>7. ~(NoRoom(b))' /\ (CutFrom(b))' = {}
    <3>1. ~(NoRoom(b))'
      BY <2>1, <2>4 DEF NoRoom
    <3>2. (CutFrom(b))' = {}
      BY <2>1, <2>4 DEF CutFrom
    <3> QED BY <3>1, <3>2
  <2>8. Range(slabs) = {}
    BY <1>9 DEF Range
  <2>9. PoolTypes'
    <3>1. \A c \in Reserved' : bump'[c] \in c + allocated_size .. c + slab_size
      BY <1>2, <1>5, <1>9, <2>1, <2>4, <2>5
    <3> QED BY <1>1, <1>2, <1>3, <1>9, <2>2, <2>3, <2>4, <2>8, <3>1 DEF PoolTypes, TypeOK
  <2>10. PoolControl'
    <3>1. \A u \in Threads : u # t => slab[u] # b
      BY <1>7, <1>9, <2>1
    <3>2. \A u \in Threads : u # t /\ pc[u] = "cut" => ~(NoRoom(slab[u]))'
      BY <1>1, <1>5, <2>2, <2>6, <3>1 DEF PoolControl
    <3>3. ~(NoRoom(slab[t]))'
      BY <2>2, <2>7
    <3> QED BY <1>1, <2>2, <2>3, <2>5, <3>2, <3>3 DEF PoolControl
  <2>11. CutWhole'
    <3>1. allocated_size % allocated_size = 0
      <4>1. (1 * allocated_size + 0) % allocated_size = 0
        BY <2>1, RemOfSum
      <4>2. 1 * allocated_size + 0 = allocated_size
        BY <2>1
      <4> QED BY <4>1, <4>2
    <3>2. (bump'[b] - b) % allocated_size = 0
      <4>1. bump'[b] - b = allocated_size
        BY <2>1, <2>4
      <4> QED BY <3>1, <4>1
    <3>3. \A c \in Reserved : (bump'[c] - c) % allocated_size = 0
      BY <1>1, <1>5, <1>9, <2>4 DEF CutWhole
    <3> QED BY <2>5, <3>2, <3>3 DEF CutWhole
  <2>12. SlabsPlaced'
    <3>1. \A u, v \in Threads : slab'[u] = slab'[v] /\ slab'[u] # nullptr => u = v
      BY <1>6, <1>7, <1>9, <2>1, <2>2
    <3>2. \A c \in Reserved' : ~(NoRoom(c))' => \E u \in Threads : slab'[u] = c
      BY <1>4, <1>5, <1>6, <1>9, <2>2, <2>5, <2>6, <2>8
    <3> QED BY <1>6, <1>9, <2>8, <3>1, <3>2 DEF SlabsPlaced
  <2>13. ObjectsPlaced'
    <3>1. /\ \A p \in Held \cup Range(objects) : \E c \in Reserved : p \in CutFrom(c)
          /\ \A c \in Reserved : CutFrom(c) \subseteq Held \cup Range(objects)
      BY <1>1 DEF ObjectsPlaced
    <3>2. \A p \in Held \cup Range(objects) : \E c \in Reserved' : p \in (CutFrom(c))'
      BY <1>5, <1>9, <2>5, <2>6, <3>1
    <3>3. \A c \in Reserved' : (CutFrom(c))' \subseteq Held \cup Range(objects)
      BY <1>5, <1>9, <2>5, <2>6, <2>7, <3>1
    <3> QED BY <1>1, <1>3, <3>2, <3>3 DEF ObjectsPlaced, Held
  <2>14. FewOpenSlabs'
    <3> DEFINE Open == {c \in Reserved' : ~(NoRoom(c))'}
               f == [u \in Threads |-> slab'[u]]
               T == {f[u] : u \in Threads}
    <3>1. Open \subseteq T
      BY <1>4, <1>5, <1>6, <1>9, <2>2, <2>5, <2>6, <2>8
    <3>2. IsFiniteSet(Threads)
      BY PoolConstants
    <3>3. f \in Surjection(Threads, T)
      BY DEF Surjection
    <3>4. IsFiniteSet(T) /\ Cardinality(T) <= Cardinality(Threads)
      BY <3>2, <3>3, FS_Surjection
    <3> HIDE DEF Open, T, f
    <3>5. IsFiniteSet(Open) /\ Cardinality(Open) <= Cardinality(T)
      BY <3>1, <3>4, FS_Subset
    <3>6. Cardinality(Open) \in Nat /\ Cardinality(T) \in Nat /\ Cardinality(Threads) \in Nat
      BY <3>2, <3>4, <3>5, FS_CardinalityType
    <3>7. Cardinality(Open) <= Cardinality(Threads)
      BY <3>4, <3>5, <3>6
    <3> QED BY <3>7 DEF FewOpenSlabs, Open
  <2> QED BY <2>9, <2>10, <2>11, <2>12, <2>13, <2>14 DEF PoolIInv
<1> QED BY <1>8, <1>9 DEF PopSlab

(* A full slab is dropped, another one goes on the stack. *)
LEMMA PushSlabStep ==
  ASSUME PoolIInv, NEW t \in Threads, PushSlab(t)
  PROVE  PoolIInv'
<1>1. PoolTypes /\ PoolControl /\ CutWhole /\ SlabsPlaced /\ ObjectsPlaced /\ FewOpenSlabs
  BY DEF PoolIInv
<1>2. /\ pc \in [Threads -> {"idle", "slab", "cut", "push"}]
      /\ slab \in [Threads -> Bases \cup {nullptr}]
      /\ slabs \in Seq(Bases) /\ Range(slabs) \subseteq Reserved
  BY <1>1 DEF PoolTypes, TypeOK
<1>3. /\ pc[t] = "push" /\ UNCHANGED <<objects, bump, held>>
      /\ pc' = [pc EXCEPT ![t] = "idle"] /\ slab' = [slab EXCEPT ![t] = nullptr]
      /\ slabs' = IF NoRoom(slab[t]) THEN slabs ELSE <<slab[t]>> \o slabs
  BY DEF PushSlab
<1>4. Reserved \subseteq Bases /\ nullptr \notin Reserved
  BY BaseAddress DEF Reserved, nullptr
<1> DEFINE b == slab[t]
<1>5. b \in Reserved /\ b \in Bases /\ b # nullptr
  BY <1>1, <1>3, <1>4 DEF PoolControl
<1>6. /\ IsInjective(slabs)
      /\ \A c \in Range(slabs) : ~NoRoom(c)
      /\ \A u \in Threads : slab[u] \notin Range(slabs)
      /\ \A u, v \in Threads : slab[u] = slab[v] /\ slab[u] # nullptr => u = v
      /\ \A c \in Reserved : ~NoRoom(c) => c \in Range(slabs) \/ \E u \in Threads : slab[u] = c
  BY <1>1 DEF SlabsPlaced
<1>7. /\ slab' \in [Threads -> Bases \cup {nullptr}] /\ slab'[t] = nullptr
      /\ \A u \in Threads : u # t => slab'[u] = slab[u]
  BY <1>2, <1>3
<1>8. /\ pc' \in [Threads -> {"idle", "slab", "cut", "push"}] /\ pc'[t] = "idle"
      /\ \A u \in Threads : u # t => pc'[u] = pc[u]
  BY <1>2, <1>3
<1>9. /\ Reserved' = Reserved
      /\ \A c \in Bases : (NoRoom(c))' = NoRoom(c) /\ (CutFrom(c))' = CutFrom(c)
      /\ CutWhole' /\ FewOpenSlabs'
  BY <1>1, <1>3, SlabsKept
<1>10. /\ slabs' \in Seq(Bases) /\ IsInjective(slabs')
       /\ Range(slabs') = Range(slabs) \cup (IF NoRoom(b) THEN {} ELSE {b})
  <2>1. CASE NoRoom(b)
    BY <1>2, <1>3, <1>6, <2>1
  <2>2. CASE ~NoRoom(b)
    <3>1. slabs' = <<b>> \o slabs /\ b \notin Range(slabs)
      BY <1>3, <1>6, <2>2
    <3> HIDE DEF b
    <3> QED BY <1>2, <1>5, <1>6, <2>2, <3>1, SeqCons, InjectiveCons
  <2> QED BY <2>1, <2>2
<1>11. PoolTypes'
  BY <1>1, <1>2, <1>3, <1>5, <1>7, <1>8, <1>9, <1>10 DEF PoolTypes, TypeOK
<1>12. PoolControl'
  BY <1>1, <1>4, <1>7, <1>8, <1>9 DEF PoolControl
<1>13. SlabsPlaced'
  <2>1. \A c \in Range(slabs') : ~NoRoom(c) /\ c \in Bases /\ c # nullptr
    BY <1>2, <1>4, <1>5, <1>6, <1>10
  <2>2. \A u \in Threads : slab'[u] \notin Range(slabs')
    BY <1>5, <1>6, <1>7, <1>10, <2>1
  <2>3. \A u, v \in Threads : slab'[u] = slab'[v] /\ slab'[u] # nullptr => u = v
    BY <1>6, <1>7
  <2>4. \A c \in Reserved : ~NoRoom(c) => c \in Range(slabs') \/ \E u \in Threads : slab'[u] = c
    BY <1>6, <1>7, <1>10
  <2> QED BY <1>4, <1>9, <1>10, <2>1, <2>2, <2>3, <2>4 DEF SlabsPlaced
<1>14. ObjectsPlaced'
  BY <1>1, <1>3, <1>4, <1>9 DEF ObjectsPlaced, Held
<1> QED BY <1>9, <1>11, <1>12, <1>13, <1>14 DEF PoolIInv
(* There are finitely many places for slabs.                               *)
LEMMA BasesFinite == IsFiniteSet(Bases)
<1> DEFINE f == [n \in 1 .. MaxSlabs |-> n * slab_size]
<1>1. IsFiniteSet(1 .. MaxSlabs)
  BY PoolConstants, FS_Interval
<1>2. Bases = {f[n] : n \in 1 .. MaxSlabs}
  BY DEF Bases
<1> HIDE DEF f
<1> QED BY <1>1, <1>2, FiniteImage
(* The slab's owner cuts the next object, which nobody has. *)
LEMMA CutStep ==
  ASSUME PoolIInv, NEW t \in Threads, Cut(t)
  PROVE  PoolIInv'
<1>1. PoolTypes /\ PoolControl /\ CutWhole /\ SlabsPlaced /\ ObjectsPlaced /\ FewOpenSlabs
  BY DEF PoolIInv
<1>2. /\ pc \in [Threads -> {"idle", "slab", "cut", "push"}]
      /\ slab \in [Threads -> Bases \cup {nullptr}]
      /\ slabs \in Seq(Bases) /\ bump \in [Bases -> Nat]
      /\ objects \in Seq(Nat) /\ held \in [Threads -> SUBSET Nat]
      /\ Range(slabs) \subseteq Reserved
      /\ \A c \in Reserved : bump[c] \in c + allocated_size .. c + slab_size
  BY <1>1 DEF PoolTypes, TypeOK
<1>3. Reserved \subseteq Bases /\ \A c \in Bases : c \in Nat /\ c > 0 /\ c # nullptr
  BY BaseAddress DEF Reserved, nullptr
<1>4. pc[t] = "cut"
  BY DEF Cut
<1>5. PICK b \in Reserved : b = slab[t]
  BY <1>1, <1>4 DEF PoolControl
<1>6. PICK q \in Nat : q = bump[b]
  BY <1>2, <1>3
<1>7. /\ pc[t] = "cut" /\ UNCHANGED <<slab, slabs, objects>>
      /\ held' = [held EXCEPT ![t] = @ \cup {q}]
      /\ bump' = [bump EXCEPT ![b] = @ + allocated_size]
      /\ pc' = [pc EXCEPT ![t] = "push"]
  BY <1>5, <1>6 DEF Cut
<1>8. b \in Reserved /\ b \in Bases /\ b \in Nat /\ b # nullptr /\ ~NoRoom(b) /\ q \in Nat
  BY <1>1, <1>2, <1>7, <1>3, <1>5 DEF PoolControl
<1>9. b + allocated_size <= q /\ q + allocated_size <= b + slab_size /\ q # 0
  BY <1>2, <1>8, <1>6, PoolSizes DEF NoRoom
<1>10. (q - b) % allocated_size = 0 /\ q - b \in Nat
  BY <1>1, <1>8, <1>9, <1>6, PoolSizes DEF CutWhole
<1>11. /\ \A u \in Threads : slab[u] \notin Range(slabs)
       /\ \A u, v \in Threads : slab[u] = slab[v] /\ slab[u] # nullptr => u = v
  BY <1>1 DEF SlabsPlaced
<1>12. /\ \A v \in Threads : held[v] \cap Range(objects) = {}
       /\ \A v, w \in Threads : v # w => held[v] \cap held[w] = {}
       /\ \A p \in Held \cup Range(objects) : \E c \in Reserved : p \in CutFrom(c)
       /\ \A c \in Reserved : CutFrom(c) \subseteq Held \cup Range(objects)
  BY <1>1 DEF ObjectsPlaced
<1>13. \A c \in Bases : bump'[c] = IF c = b THEN q + allocated_size ELSE bump[c]
  BY <1>2, <1>7, <1>6
<1>14. bump' \in [Bases -> Nat]
  BY <1>2, <1>7, <1>8, PoolSizes
<1>15. Reserved' = Reserved
  <2>1. q + allocated_size # 0
    BY <1>8, PoolSizes
  <2>2. \A c \in Bases : bump'[c] # 0 <=> bump[c] # 0
    BY <1>8, <1>13, <2>1 DEF Reserved
  <2> QED BY <2>2 DEF Reserved
<1>16. \A c \in Bases : c # b => (NoRoom(c))' = NoRoom(c) /\ (CutFrom(c))' = CutFrom(c)
  BY <1>13 DEF NoRoom, CutFrom
<1>17. (CutFrom(b))' = CutFrom(b) \cup {q}
  <2>0. PICK e \in Nat : e = q + allocated_size
    BY PoolSizes
  <2>1. bump'[b] = e /\ bump[b] = q
    BY <2>0, <1>8, <1>13, <1>6
  <2>2. ASSUME NEW p \in b + allocated_size .. q + allocated_size - 1,
               (p - b) % allocated_size = 0, ~(p <= q - 1)
        PROVE  p = q
    <3> SUFFICES ASSUME p # q PROVE FALSE
      OBVIOUS
    <3>1. p \in Int /\ q < p /\ p < q + allocated_size
      BY <1>8, <2>2, PoolSizes
    <3> DEFINE x == q - b
               y == p - b
    <3>2. x \in Nat /\ y \in Nat /\ x < y /\ y < x + allocated_size
      BY <1>8, <1>9, <3>1, PoolSizes
    <3>3. x % allocated_size = 0 /\ y % allocated_size = 0
      BY <1>10, <2>2
    <3> HIDE DEF x, y
    <3>4. x + allocated_size <= y
      BY <3>2, <3>3, PoolSizes, NextMultiple
    <3> QED BY <3>2, <3>4, PoolSizes
  <2>3. CutFrom(b) = {p \in b + allocated_size .. q - 1 : (p - b) % allocated_size = 0}
    BY <2>1 DEF CutFrom
  <2>4. (CutFrom(b))' = {p \in b + allocated_size .. e - 1 : (p - b) % allocated_size = 0}
    BY <2>1 DEF CutFrom
  <2>5. ASSUME NEW p \in (CutFrom(b))' PROVE p \in CutFrom(b) \cup {q}
    <3>1. p \in b + allocated_size .. e - 1 /\ (p - b) % allocated_size = 0
      BY <2>4, <2>5
    <3>2. CASE p <= q - 1
      <4>1. p \in b + allocated_size .. q - 1
        BY <1>8, <2>0, <3>1, <3>2, PoolSizes
      <4> QED BY <2>3, <3>1, <4>1
    <3>3. CASE ~(p <= q - 1)
      <4>1. p \in b + allocated_size .. q + allocated_size - 1
        BY <1>8, <2>0, <3>1, PoolSizes
      <4>2. p = q
        BY <2>2, <3>1, <3>3, <4>1
      <4> QED BY <4>2
    <3> QED BY <3>2, <3>3
  <2>6. ASSUME NEW p \in CutFrom(b) PROVE p \in (CutFrom(b))'
    <3>1. p \in b + allocated_size .. q - 1 /\ (p - b) % allocated_size = 0
      BY <2>3, <2>6
    <3>2. p \in b + allocated_size .. e - 1
      BY <1>8, <2>0, <3>1, PoolSizes
    <3> QED BY <2>4, <3>1, <3>2
  <2>7. q \in (CutFrom(b))'
    <3>1. q \in b + allocated_size .. e - 1
      BY <1>8, <1>9, <2>0, PoolSizes
    <3> QED BY <1>10, <2>4, <3>1
  <2> QED BY <2>5, <2>6, <2>7
<1>18. q \notin Held \cup Range(objects)
  <2> SUFFICES ASSUME q \in Held \cup Range(objects) PROVE FALSE
    OBVIOUS
  <2>0. PICK c \in Reserved : q \in CutFrom(c)
    <3>1. \A p \in Held \cup Range(objects) : \E c \in Reserved : p \in CutFrom(c)
      BY <1>12
    <3> QED BY <3>1
  <2>1. q \in c + allocated_size .. bump[c] - 1 /\ c \in Bases /\ c \in Nat /\ bump[c] \in Nat
    BY <1>2, <1>3, <2>0 DEF CutFrom
  <2>2. c # b
    BY <1>8, <1>6, <2>1
  <2>3. c <= q /\ q < c + slab_size
    BY <1>2, <1>8, <2>1, PoolSizes
  <2>4. b <= q /\ q < b + slab_size
    BY <1>8, <1>9, PoolSizes
  <2> QED BY <1>8, <2>1, <2>2, <2>3, <2>4, BasesApart
<1>19. /\ held' \in [Threads -> SUBSET Nat] /\ held'[t] = held[t] \cup {q}
       /\ \A u \in Threads : u # t => held'[u] = held[u]
  BY <1>2, <1>7, <1>8
<1>20. /\ pc' \in [Threads -> {"idle", "slab", "cut", "push"}] /\ pc'[t] = "push"
       /\ \A u \in Threads : u # t => pc'[u] = pc[u]
  BY <1>2, <1>7
<1>21. PoolTypes'
  <2>1. \A c \in Reserved : bump'[c] \in c + allocated_size .. c + slab_size
    BY <1>2, <1>3, <1>8, <1>9, <1>13, PoolSizes
  <2> QED BY <1>1, <1>2, <1>7, <1>14, <1>15, <1>19, <1>20, <2>1 DEF PoolTypes, TypeOK
<1>22. PoolControl'
  <2>1. \A u \in Threads : u # t => slab[u] # b
    BY <1>8, <1>11, <1>5
  <2>2. \A u \in Threads : u # t /\ pc[u] = "cut" => ~(NoRoom(slab[u]))'
    BY <1>1, <1>7, <1>3, <1>16, <2>1 DEF PoolControl
  <2> QED BY <1>1, <1>7, <1>15, <1>20, <2>2 DEF PoolControl
<1>23. CutWhole'
  <2>0. PICK e \in Nat : e = q + allocated_size
    BY PoolSizes
  <2>1. (e - b) % allocated_size = 0
    <3> DEFINE x == q - b
    <3>1. x \in Nat /\ x % allocated_size = 0
      BY <1>10
    <3>2. e - b = x + allocated_size
      BY <1>8, <2>0, PoolSizes
    <3> HIDE DEF x
    <3>3. (x + allocated_size) % allocated_size = 0
      BY <3>1, PoolSizes, SumRem
    <3> QED BY <3>2, <3>3
  <2>2. bump'[b] = e
    BY <1>8, <1>13, <2>0
  <2>3. (bump'[b] - b) % allocated_size = 0
    BY <2>1, <2>2
  <2>4. \A c \in Reserved : c # b => (bump'[c] - c) % allocated_size = 0
    BY <1>1, <1>3, <1>13 DEF CutWhole
  <2>5. \A c \in Reserved : (bump'[c] - c) % allocated_size = 0
    BY <2>3, <2>4
  <2> QED BY <1>15, <2>5 DEF CutWhole
<1>24. \A c \in Reserved : ~(NoRoom(c))' => ~NoRoom(c)
  BY <1>3, <1>8, <1>16
<1>25. SlabsPlaced'
  <2>1. b \notin Range(slabs)
    BY <1>11, <1>5
  <2>2. \A c \in Range(slabs) : ~(NoRoom(c))'
    BY <1>1, <1>2, <1>3, <1>16, <2>1 DEF SlabsPlaced
  <2>3. \A c \in Reserved : ~(NoRoom(c))' => c \in Range(slabs) \/ \E u \in Threads : slab[u] = c
    BY <1>1, <1>24 DEF SlabsPlaced
  <2> QED BY <1>1, <1>7, <1>15, <2>2, <2>3 DEF SlabsPlaced
<1>26. Held' = Held \cup {q}
  BY <1>19 DEF Held
<1>27. ObjectsPlaced'
  <2>1. \A v \in Threads : q \notin held[v]
    BY <1>18 DEF Held
  <2>2. \A v \in Threads : held'[v] \cap Range(objects) = {}
    BY <1>12, <1>18, <1>19
  <2>3. \A v, w \in Threads : v # w => held'[v] \cap held'[w] = {}
    BY <1>12, <1>19, <2>1
  <2>4. \A c \in Reserved : /\ CutFrom(c) \subseteq (CutFrom(c))'
                             /\ (CutFrom(c))' \subseteq CutFrom(c) \cup {q}
    <3> SUFFICES ASSUME NEW c \in Reserved
                 PROVE  CutFrom(c) \subseteq (CutFrom(c))' /\ (CutFrom(c))' \subseteq CutFrom(c) \cup {q}
      OBVIOUS
    <3>1. CASE c = b
      BY <1>17, <3>1
    <3>2. CASE c # b
      BY <1>3, <1>16, <3>2
    <3> QED BY <3>1, <3>2
  <2>5. \A p \in Held \cup {q} \cup Range(objects) : \E c \in Reserved : p \in (CutFrom(c))'
    <3>1. q \in (CutFrom(b))' /\ b \in Reserved
      BY <1>17
    <3>2. \A p \in Held \cup Range(objects) : \E c \in Reserved : p \in (CutFrom(c))'
      <4>1. \A p \in Held \cup Range(objects) : \E c \in Reserved : p \in CutFrom(c)
        BY <1>12
      <4> QED BY <2>4, <4>1
    <3> QED BY <3>1, <3>2
  <2>6. \A c \in Reserved : (CutFrom(c))' \subseteq Held \cup {q} \cup Range(objects)
    <3>1. \A c \in Reserved : CutFrom(c) \subseteq Held \cup Range(objects)
      BY <1>12
    <3> QED BY <2>4, <3>1
  <2> QED BY <1>1, <1>7, <1>15, <1>26, <2>2, <2>3, <2>5, <2>6 DEF ObjectsPlaced
<1>28. FewOpenSlabs'
  <2> DEFINE Open == {c \in Reserved : ~NoRoom(c)}
             Left == {c \in Reserved : ~(NoRoom(c))'}
  <2>1. Left \subseteq Open
    BY <1>24
  <2>2. IsFiniteSet(Open)
    <3>1. IsFiniteSet(Bases)
      BY BasesFinite
    <3>2. Open \subseteq Bases
      BY <1>3
    <3> HIDE DEF Open
    <3> QED BY <3>1, <3>2, FS_Subset
  <2>3. Cardinality(Open) <= Cardinality(Threads)
    BY <1>1 DEF FewOpenSlabs
  <2> HIDE DEF Open, Left
  <2>4. IsFiniteSet(Left) /\ Cardinality(Left) <= Cardinality(Open)
    BY <2>1, <2>2, FS_Subset
  <2>5. Cardinality(Left) \in Nat /\ Cardinality(Open) \in Nat /\ Cardinality(Threads) \in Nat
    BY <2>2, <2>4, FS_CardinalityType, PoolConstants
  <2>6. Cardinality(Left) <= Cardinality(Threads)
    BY <2>3, <2>4, <2>5
  <2> QED BY <1>15, <2>6 DEF FewOpenSlabs, Left
<1> QED BY <1>21, <1>22, <1>23, <1>25, <1>27, <1>28 DEF PoolIInv
-----------------------------------------------------------------------------
(* Every step of the pool keeps its invariant.                             *)
LEMMA PoolNext == PoolIInv /\ [Next]_vars => PoolIInv'
<1> SUFFICES ASSUME PoolIInv, [Next]_vars PROVE PoolIInv'
  OBVIOUS
<1>1. CASE UNCHANGED vars
  BY <1>1 DEF vars, PoolIInv, PoolTypes, PoolControl, CutWhole, SlabsPlaced, ObjectsPlaced,
              FewOpenSlabs, TypeOK, Reserved, NoRoom, CutFrom, Held
<1>2. CASE Next
  <2>1. PICK t \in Threads : \/ PopObject(t) \/ PopSlab(t) \/ Cut(t) \/ PushSlab(t)
                             \/ \E p \in Held : Release(t, p)
    BY <1>2 DEF Next
  <2> QED BY <2>1, PopObjectStep, PopSlabStep, CutStep, PushSlabStep, ReleaseStep
<1> QED BY <1>1, <1>2

(* Something is in one place when of two sets one is empty and one has one *)
(* element. *)
LEMMA OneInTwo ==
  ASSUME NEW S, NEW T, NEW x,
         (S = {} /\ T = {x}) \/ (S = {x} /\ T = {})
  PROVE  Cardinality(S) + Cardinality(T) = 1
<1>1. Cardinality({}) = 0 /\ Cardinality({x}) = 1
  BY FS_EmptySet, FS_Singleton
<1>2. CASE S = {} /\ T = {x}
  BY <1>1, <1>2
<1>3. CASE S = {x} /\ T = {}
  BY <1>1, <1>3
<1> QED BY <1>2, <1>3

(* In an injective sequence an element is at one position. *)
LEMMA PositionIs ==
  ASSUME NEW s, IsInjective(s), NEW x \in Range(s)
  PROVE  \E n \in DOMAIN s : {k \in DOMAIN s : s[k] = x} = {n}
<1>1. PICK n \in DOMAIN s : s[n] = x
  BY DEF Range
<1>2. \A k \in DOMAIN s : s[k] = x => k = n
  BY <1>1 DEF IsInjective
<1>3. {k \in DOMAIN s : s[k] = x} = {n}
  BY <1>1, <1>2
<1> QED BY <1>3

(* By the invariant an object is in one place.                             *)
LEMMA ObjectsOnce == PoolIInv => OnePlace
<1> SUFFICES ASSUME PoolIInv, NEW b \in Reserved, NEW p \in CutFrom(b)
             PROVE  Cardinality({t \in Threads : p \in held[t]})
                      + Cardinality({n \in DOMAIN objects : objects[n] = p}) = 1
  BY DEF OnePlace
<1> DEFINE S == {t \in Threads : p \in held[t]}
           T == {n \in DOMAIN objects : objects[n] = p}
<1>1. /\ IsInjective(objects)
      /\ \A t \in Threads : held[t] \cap Range(objects) = {}
      /\ \A t, u \in Threads : t # u => held[t] \cap held[u] = {}
      /\ CutFrom(b) \subseteq Held \cup Range(objects)
  BY DEF PoolIInv, ObjectsPlaced
<1>2. CASE p \in Range(objects)
  <2>1. S = {}
    BY <1>1, <1>2
  <2>2. PICK m \in DOMAIN objects : T = {m}
    BY <1>1, <1>2, PositionIs
  <2> HIDE DEF S, T
  <2>3. Cardinality(S) + Cardinality(T) = 1
    BY <2>1, <2>2, OneInTwo
  <2> QED BY <2>3 DEF S, T
<1>3. CASE p \notin Range(objects)
  <2>1. T = {}
    BY <1>3 DEF Range
  <2>2. PICK t \in Threads : p \in held[t]
    BY <1>1, <1>3 DEF Held
  <2>3. S = {t}
    BY <1>1, <2>2
  <2> HIDE DEF S, T
  <2> QED BY <2>1, <2>3, OneInTwo DEF S, T
<1> QED BY <1>2, <1>3

(* By the invariant a slab with room is in one place.                      *)
LEMMA SlabsApart == PoolIInv => SlabsInOnePlace
<1> SUFFICES ASSUME PoolIInv, NEW b \in Reserved
             PROVE  LET n == Cardinality({k \in DOMAIN slabs : slabs[k] = b})
                             + Cardinality({t \in Threads : slab[t] = b})
                    IN  /\ n <= 1
                        /\ ~NoRoom(b) => n = 1
                        /\ NoRoom(b) => b \notin Range(slabs)
  BY DEF SlabsInOnePlace
<1> DEFINE S == {k \in DOMAIN slabs : slabs[k] = b}
           T == {t \in Threads : slab[t] = b}
<1>1. /\ IsInjective(slabs)
      /\ \A c \in Range(slabs) : ~NoRoom(c)
      /\ \A t \in Threads : slab[t] \notin Range(slabs)
      /\ \A t, u \in Threads : slab[t] = slab[u] /\ slab[t] # nullptr => t = u
      /\ ~NoRoom(b) => b \in Range(slabs) \/ \E t \in Threads : slab[t] = b
  BY DEF PoolIInv, SlabsPlaced
<1>2. b # nullptr
  BY BaseAddress DEF Reserved, nullptr
<1>3. CASE b \in Range(slabs)
  <2>1. T = {}
    BY <1>1, <1>3
  <2>2. PICK n \in DOMAIN slabs : S = {n}
    BY <1>1, <1>3, PositionIs
  <2> HIDE DEF S, T
  <2>3. Cardinality(S) + Cardinality(T) = 1
    BY <2>1, <2>2, OneInTwo
  <2> QED BY <1>1, <1>3, <2>3 DEF S, T
<1>4. CASE b \notin Range(slabs) /\ \E t \in Threads : slab[t] = b
  <2>1. S = {}
    BY <1>4 DEF Range
  <2>2. PICK t \in Threads : slab[t] = b
    BY <1>4
  <2>3. T = {t}
    BY <1>1, <1>2, <2>2
  <2> HIDE DEF S, T
  <2>4. Cardinality(S) + Cardinality(T) = 1
    BY <2>1, <2>3, OneInTwo
  <2> QED BY <1>4, <2>4 DEF S, T
<1>5. CASE b \notin Range(slabs) /\ ~ \E t \in Threads : slab[t] = b
  <2>1. S = {} /\ T = {}
    BY <1>5 DEF Range
  <2> HIDE DEF S, T
  <2>2. Cardinality(S) + Cardinality(T) = 0
    BY <2>1, FS_EmptySet
  <2> QED BY <1>1, <1>5, <2>2 DEF S, T
<1> QED BY <1>3, <1>4, <1>5

(* By the invariant objects lie in their slabs.                            *)
LEMMA ObjectsInside == PoolIInv => InsideSlab
<1> SUFFICES ASSUME PoolIInv, NEW p \in Held \cup Range(objects)
             PROVE  \E b \in Reserved : p \in CutFrom(b) /\ p + allocated_size <= b + slab_size
  BY DEF InsideSlab
<1>1. PICK b \in Reserved : p \in CutFrom(b)
  BY DEF PoolIInv, ObjectsPlaced
<1>2. b \in Nat /\ bump[b] \in b + allocated_size .. b + slab_size /\ bump[b] \in Nat
  BY BaseAddress DEF PoolIInv, PoolTypes, TypeOK, Reserved
<1>3. p \in b + allocated_size .. bump[b] - 1 /\ (p - b) % allocated_size = 0
  BY <1>1 DEF CutFrom
<1>4. (bump[b] - b) % allocated_size = 0
  BY DEF PoolIInv, CutWhole
<1> DEFINE x == p - b
           y == bump[b] - b
<1>5. x \in Nat /\ y \in Nat /\ x < y /\ y <= slab_size /\ p = b + x
  BY <1>2, <1>3, PoolSizes
<1>6. x % allocated_size = 0 /\ y % allocated_size = 0
  BY <1>3, <1>4
<1> HIDE DEF x, y
<1>7. x + allocated_size <= y
  BY <1>5, <1>6, PoolSizes, NextMultiple
<1>8. p + allocated_size <= b + slab_size
  BY <1>2, <1>5, <1>7, PoolSizes
<1> QED BY <1>1, <1>8

(* The pool's invariant holds always, whatever Room leaves out. *)
THEOREM PoolInductive == Spec => []PoolIInv
<1> QED BY PoolInit, PoolNext, PTL DEF Spec
-----------------------------------------------------------------------------
(* The lemmas on the arithmetic of size classes, with the same constants.  *)
Sizes == INSTANCE SizeclassProofs

(* What Large counts with are the operators of the library.                *)
LEMMA LargeCounts ==
  \A S : /\ Large!Cardinality(S) = Cardinality(S)
         /\ Large!IsFiniteSet(S) <=> IsFiniteSet(S)
         /\ Large!Max(S) = Max(S)
BY DEF Large!Cardinality, Cardinality, Large!IsFiniteSet, IsFiniteSet, Large!Max, Max

(* next_pow2_bits finds the least power of two that is not below x. *)
LEMMA LargeNextPow2 ==
  ASSUME NEW x \in Nat, NEW k \in 0 .. Bits - 1, 2 ^ k <= x - 1, x - 1 < 2 ^ (k + 1)
  PROVE  Large!next_pow2_bits(x) = k + 1
<1>1. Sizes!SizesFit
  BY LargeConstants DEF Large!GlobalConstants, Large!SizesFit, Sizes!SizesFit
<1>2. Sizes!next_pow2_bits(x) = k + 1
  BY <1>1, Sizes!NextPow2
<1>3. Large!next_pow2_bits(x) = Sizes!next_pow2_bits(x)
  BY DEF Large!next_pow2_bits, Sizes!next_pow2_bits, Large!countl_zero, Sizes!countl_zero,
         Large!SizeT, Sizes!SizeT
<1> QED BY <1>2, <1>3

-----------------------------------------------------------------------------
(* The inductive invariant of large blocks: each is in one place, the page *)
(* map knows its class, and nothing is decommitted under a caller.         *)
LargeTypes ==
  /\ Large!TypeOK
  /\ size \in [Threads -> Requests \cup {0}]
  /\ large_stack \in [Large!LargeClasses -> Seq(Large!Chunks)]
  /\ peak \in [Large!LargeClasses -> Nat]
  /\ IsFiniteSet(blocks)

(* What a thread works on: a request until the block is stored, and a      *)
(* block that has been reserved from then on and in deallocate. *)
LargeControl ==
  \A t \in Threads :
    /\ l_pc[t] \in {"idle", "reserve"} => ptr[t] = Large!nullptr
    /\ l_pc[t] \in {"reserve", "store"} => size[t] \in Requests
    /\ l_pc[t] = "store" => <<ptr[t], Large!ClassOf(size[t])>> \in blocks
    /\ l_pc[t] \in {"decommit", "push"} => <<ptr[t], pagemap[ptr[t]]>> \in blocks

(* Blocks share no page. *)
BlocksApart ==
  \A b, c \in blocks : b # c => Large!PagesOf(b[1], b[2]) \cap Large!PagesOf(c[1], c[2]) = {}

(* A block is with a caller, in a call or on a stack, and only there. *)
BlocksOnce ==
  /\ \A o, q \in l_held : o[1] = q[1] => o = q
  /\ \A t, u \in Threads : ptr[t] = ptr[u] /\ ptr[t] # Large!nullptr => t = u
  /\ \A sc \in Large!LargeClasses : IsInjective(large_stack[sc])
  /\ \A o \in l_held : \A t \in Threads : o[1] # ptr[t]
  /\ \A o \in l_held : \A sc \in Large!LargeClasses : o[1] \notin Range(large_stack[sc])
  /\ \A t \in Threads : \A sc \in Large!LargeClasses : ptr[t] \notin Range(large_stack[sc])

BlocksPlaced ==
  \A b \in blocks : \/ \E o \in l_held : o[1] = b[1]
                    \/ \E t \in Threads : ptr[t] = b[1]
                    \/ b[1] \in Range(large_stack[b[2]])

(* The page map has the class of a block that is held or freed. *)
HeldKnown ==
  \A o \in l_held : <<o[1], pagemap[o[1]]>> \in blocks /\ o[2] <= 2 ^ pagemap[o[1]]

StackedKnown ==
  \A sc \in Large!LargeClasses : \A p \in Range(large_stack[sc]) :
    <<p, sc>> \in blocks /\ pagemap[p] = sc

(* Nobody decommits the page for the stack's link. *)
FirstPages == \A b \in blocks : b[1] \div Large!PageSize \in committed

(* Blocks are reserved only when all of their class are in use. *)
OfClass(sc) == {b \in blocks : b[2] = sc}
ReservingOf(sc) == {t \in Large!Reserving : Large!ClassOf(size[t]) = sc}
Peaks ==
  \A sc \in Large!LargeClasses : Cardinality(OfClass(sc)) + Cardinality(ReservingOf(sc)) <= peak[sc]

LargeIInv == /\ LargeTypes /\ LargeControl /\ BlocksApart /\ BlocksOnce /\ BlocksPlaced
             /\ HeldKnown /\ StackedKnown /\ FirstPages /\ Peaks

-----------------------------------------------------------------------------
(* The arithmetic of classes. *)
LEMMA LargeSizes ==
  /\ {Bits, AddressBits, LargeThresholdBits, PageBits} \subseteq Nat
  /\ 1 < LargeThresholdBits /\ LargeThresholdBits < AddressBits /\ AddressBits < Bits
  /\ AddressBits <= 256
  /\ Requests \subseteq Large!LargeThreshold .. 2 ^ (AddressBits - 1)
  /\ IsFiniteSet(Threads)
<1>1. 2 ^ 8 = 256
  BY PowEight
<1>2. /\ {Bits, AddressBits, IntermediateBits, MinAllocBits, MediumThresholdBits,
          LargeThresholdBits, PageBits} \subseteq Nat
      /\ IntermediateBits + MinAllocBits < MediumThresholdBits
      /\ MediumThresholdBits < LargeThresholdBits
      /\ LargeThresholdBits < AddressBits /\ AddressBits < Bits
  BY LargeConstants DEF Large!GlobalConstants, Large!SizesFit
<1>3. MediumThresholdBits > 0
  BY <1>2
<1> QED BY <1>1, <1>2, <1>3, LargeConstants, LargeCounts DEF Large!GlobalConstants

(* A request's class is one of a large block that is big enough for it. *)
LEMMA ClassFits ==
  ASSUME NEW request \in Requests
  PROVE  Large!ClassOf(request) \in Large!LargeClasses /\ request <= 2 ^ Large!ClassOf(request)
<1> DEFINE y == request - 1
           n == AddressBits - 1
<1>1. n \in Nat /\ LargeThresholdBits \in Nat /\ LargeThresholdBits <= n /\ n < Bits /\ n < 256
  BY LargeSizes
<1> HIDE DEF n
<1>2. 2 ^ n \in Nat /\ 2 ^ LargeThresholdBits \in Nat \ {0} /\ 2 <= 2 ^ LargeThresholdBits
  <2>1. 2 * 2 ^ 0 <= 2 ^ LargeThresholdBits
    <3>1. 0 \in Nat /\ 0 < LargeThresholdBits
      BY LargeSizes
    <3> QED BY <1>1, <3>1, Pow2Mono
  <2> QED BY <1>1, <2>1, Pow2Pos, Pow2Zero
<1>3. request \in 2 ^ LargeThresholdBits .. 2 ^ n
  BY LargeSizes DEF Large!LargeThreshold, Large!one_at_bit, n
<1>4. y \in Nat \ {0} /\ y < 2 ^ n /\ 2 ^ LargeThresholdBits <= y + 1 /\ request = y + 1
      /\ request \in Nat
  BY <1>2, <1>3
<1> HIDE DEF y
<1>5. PICK k \in 0 .. n - 1 : 2 ^ k <= y /\ y < 2 ^ (k + 1)
  BY <1>1, <1>4, LeadingBit
<1>6. k \in Nat /\ k + 1 \in Nat /\ k + 1 <= n /\ k \in 0 .. Bits - 1
  BY <1>1, <1>5, LargeSizes
<1>7. Large!next_pow2_bits(request) = k + 1
  BY <1>4, <1>5, <1>6, LargeNextPow2 DEF y
<1>8. Large!ClassOf(request) = k + 1
  <2>1. 2 ^ 8 = 256 /\ 2 ^ 8 \in Nat
    BY PowEight
  <2>2. k + 1 < 256
    BY <1>1, <1>6
  <2>3. (0 * 2 ^ 8 + (k + 1)) % 2 ^ 8 = k + 1
    BY <1>6, <2>1, <2>2, RemOfSum
  <2>4. 0 * 2 ^ 8 + (k + 1) = k + 1
    BY <1>6, <2>1
  <2> QED BY <1>7, <2>3, <2>4 DEF Large!ClassOf, Large!Uint8
<1>9. 2 ^ (k + 1) \in Nat
  BY <1>6, Pow2Nat
<1>10. LargeThresholdBits <= k + 1
  <2> SUFFICES ASSUME k + 1 < LargeThresholdBits PROVE FALSE
    BY <1>1, <1>6
  <2>1. 2 * 2 ^ (k + 1) <= 2 ^ LargeThresholdBits
    BY <1>1, <1>6, Pow2Mono
  <2> DEFINE p == 2 ^ (k + 1)
  <2> HIDE DEF p
  <2>2. p \in Nat /\ 2 * p <= y + 1 /\ y < p /\ y \in Nat \ {0}
    BY <1>2, <1>4, <1>5, <1>9, <2>1 DEF p
  <2> QED BY <2>2
<1>11. request <= 2 ^ (k + 1)
  BY <1>4, <1>5, <1>9
<1> QED BY <1>6, <1>8, <1>10, <1>11, LargeSizes DEF Large!LargeClasses, n
-----------------------------------------------------------------------------
(* Pages and blocks. *)
LEMMA PagePositive ==
  Large!PageSize \in Nat /\ Large!PageSize > 0
<1>1. 2 ^ PageBits \in Nat \ {0}
  BY LargeSizes, Pow2Pos
<1> DEFINE p == 2 ^ PageBits
<1> HIDE DEF p
<1>2. p \in Nat /\ p > 0
  BY <1>1 DEF p
<1> QED BY <1>2 DEF Large!PageSize, Large!one_at_bit, p

(* Chunks are reserved at addresses but nullptr.                           *)
LEMMA ChunkAddress ==
  ASSUME NEW p \in Large!Chunks
  PROVE  p \in Nat /\ p > 0 /\ p # Large!nullptr
<1>1. 2 ^ LargeThresholdBits \in Nat \ {0}
  BY LargeSizes, Pow2Pos
<1> DEFINE l == Large!LargeThreshold
<1>2. l \in Nat /\ l > 0
  BY <1>1 DEF Large!LargeThreshold, Large!one_at_bit
<1> HIDE DEF l
<1>3. 2 ^ (AddressBits - LargeThresholdBits) \in Nat
  <2>1. AddressBits - LargeThresholdBits \in Nat
    BY LargeSizes
  <2> QED BY <2>1, Pow2Nat
<1>4. PICK n \in 1 .. 2 ^ (AddressBits - LargeThresholdBits) - 1 : p = n * l
  BY DEF Large!Chunks, l
<1>5. n \in Int /\ 0 < n /\ 0 \in Int
  BY <1>3, <1>4
<1>6. 0 * l + l <= n * l
  BY <1>2, <1>5, MultMono
<1>7. n * l \in Int /\ 0 * l = 0
  BY <1>2, <1>5
<1> QED BY <1>2, <1>4, <1>6, <1>7 DEF Large!nullptr

(* A block's first page is among its pages.                                *)
LEMMA FirstPage ==
  ASSUME NEW p \in Nat, NEW bits \in Nat
  PROVE  p \div Large!PageSize \in Large!PagesOf(p, bits)
<1>1. Large!PageSize \in Nat /\ Large!PageSize > 0 /\ 2 ^ bits \in Nat \ {0}
  BY PagePositive, Pow2Pos
<1> DEFINE z == Large!PageSize
           q == p + 2 ^ bits - 1
<1>2. q \in Nat /\ p <= q
  BY <1>1
<1> HIDE DEF z, q
<1>3. z \in Nat /\ z > 0
  BY <1>1 DEF z
<1>4. p \div z \in Nat /\ p % z \in Nat /\ p % z < z /\ p = (p \div z) * z + (p % z)
  BY <1>3, QuotRem
<1>5. q \div z \in Nat /\ q % z \in Nat /\ q % z < z /\ q = (q \div z) * z + (q % z)
  BY <1>2, <1>3, QuotRem
<1>6. p \div z <= q \div z
  <2> DEFINE m == p \div z
             n == q \div z
             r == p % z
             s == q % z
  <2> HIDE DEF m, n, r, s
  <2>1. m \in Nat /\ n \in Nat /\ r \in Nat /\ s \in Nat /\ s < z /\ p = m * z + r /\ q = n * z + s
    BY <1>4, <1>5 DEF m, n, r, s
  <2>2. m <= n
    <3> SUFFICES ASSUME n < m PROVE FALSE
      BY <2>1
    <3>1. n * z + z <= m * z
      BY <1>3, <2>1, MultMono
    <3>2. n * z \in Nat /\ m * z \in Nat
      BY <1>3, <2>1
    <3> QED BY <1>2, <1>3, <2>1, <3>1, <3>2
  <2> QED BY <2>2 DEF m, n
<1>7. p \div z \in p \div z .. q \div z
  BY <1>4, <1>5, <1>6
<1> QED BY <1>7 DEF Large!PagesOf, z, q

(* A block is known by its address. *)
LEMMA SameAddress ==
  ASSUME LargeTypes, BlocksApart, NEW b \in blocks, NEW c \in blocks, b[1] = c[1]
  PROVE  b = c
<1>1. b \in Large!Chunks \X Large!LargeClasses /\ c \in Large!Chunks \X Large!LargeClasses
  BY DEF LargeTypes, Large!TypeOK
<1>2. b[1] \in Nat /\ b[2] \in Nat /\ c[2] \in Nat
  <2>1. Large!LargeClasses \subseteq Nat
    BY LargeSizes DEF Large!LargeClasses
  <2> QED BY <1>1, <2>1, ChunkAddress
<1>3. b[1] \div Large!PageSize \in Large!PagesOf(b[1], b[2]) \cap Large!PagesOf(c[1], c[2])
  BY <1>2, FirstPage
<1> QED BY <1>3 DEF BlocksApart

(* Classes of large blocks are positive numbers.                           *)
LEMMA ClassNat ==
  ASSUME NEW sc \in Large!LargeClasses
  PROVE  sc \in Nat /\ sc # 0
BY LargeSizes DEF Large!LargeClasses

(* The invariant holds at first.                                           *)
LEMMA LargeInitStep ==
  ASSUME Large!Init
  PROVE  LargeIInv
<1>1. LargeTypes
  <2>1. 0 \in Nat /\ IsFiniteSet({}) /\ <<>> \in Seq(Large!Chunks)
    BY FS_EmptySet
  <2> QED BY <2>1 DEF Large!Init, LargeTypes, Large!TypeOK
<1>2. LargeControl
  BY DEF Large!Init, LargeControl
<1>3. BlocksApart /\ BlocksPlaced /\ FirstPages
  BY DEF Large!Init, BlocksApart, BlocksPlaced, FirstPages
<1>4. \A sc \in Large!LargeClasses : Range(large_stack[sc]) = {} /\ IsInjective(large_stack[sc])
  BY DEF Large!Init, Range, IsInjective
<1>5. BlocksOnce
  BY <1>4 DEF Large!Init, BlocksOnce
<1>6. HeldKnown /\ StackedKnown
  BY <1>4 DEF Large!Init, HeldKnown, StackedKnown
<1>7. Peaks
  <2> SUFFICES ASSUME NEW sc \in Large!LargeClasses
               PROVE  Cardinality(OfClass(sc)) + Cardinality(ReservingOf(sc)) <= peak[sc]
    BY DEF Peaks
  <2>1. OfClass(sc) = {} /\ ReservingOf(sc) = {}
    BY DEF Large!Init, OfClass, ReservingOf, Large!Reserving
  <2> QED BY <2>1, FS_EmptySet DEF Large!Init
<1> QED BY <1>1, <1>2, <1>3, <1>5, <1>6, <1>7 DEF LargeIInv

-----------------------------------------------------------------------------
(* The greater of two numbers. *)
LEMMA MaxOfTwo ==
  ASSUME NEW m \in Int, NEW n \in Int
  PROVE  Max({m, n}) \in {m, n} /\ m <= Max({m, n}) /\ n <= Max({m, n})
<1>1. \E x \in {m, n} : \A y \in {m, n} : x >= y
  <2>1. CASE m >= n
    BY <2>1
  <2>2. CASE ~(m >= n)
    BY <2>2
  <2> QED BY <2>1, <2>2
<1> QED BY <1>1 DEF Max

(* The peak of a class only grows, to what is in use with one block more. *)
LEMMA PeakGrows ==
  ASSUME LargeTypes, NEW sc \in Large!LargeClasses, IsFiniteSet(Threads), Large!Called(sc)
  PROVE  /\ peak' \in [Large!LargeClasses -> Nat]
         /\ \A c \in Large!LargeClasses : peak[c] <= peak'[c]
         /\ Large!InUse(sc) + 1 <= peak'[sc]
<1>1. peak \in [Large!LargeClasses -> Nat] /\ peak' = [peak EXCEPT ![sc] = Max({@, Large!InUse(sc) + 1})]
  BY LargeCounts DEF LargeTypes, Large!Called
<1>2. Large!InUse(sc) \in Int
  <2>1. IsFiniteSet({b \in blocks : b[2] = sc})
    <3>1. {b \in blocks : b[2] = sc} \subseteq blocks /\ IsFiniteSet(blocks)
      BY DEF LargeTypes
    <3> QED BY <3>1, FS_Subset
  <2>2. IsFiniteSet({t \in Large!Reserving : Large!ClassOf(size[t]) = sc})
    <3>1. {t \in Large!Reserving : Large!ClassOf(size[t]) = sc} \subseteq Threads
      BY DEF Large!Reserving
    <3> QED BY <3>1, FS_Subset
  <2>3. Len(large_stack[sc]) \in Nat
    <3>1. large_stack[sc] \in Seq(Large!Chunks)
      BY DEF LargeTypes
    <3> QED BY <3>1, LenProperties
  <2>4. /\ Cardinality({b \in blocks : b[2] = sc}) \in Nat
        /\ Cardinality({t \in Large!Reserving : Large!ClassOf(size[t]) = sc}) \in Nat
    BY <2>1, <2>2, FS_CardinalityType
  <2> QED BY <2>3, <2>4, LargeCounts DEF Large!InUse
<1> DEFINE u == Large!InUse(sc) + 1
           x == peak[sc]
           m == Max({x, u})
<1>3. u \in Int /\ x \in Nat
  BY <1>1, <1>2
<1> HIDE DEF u, x
<1>4. m \in {x, u} /\ x <= m /\ u <= m
  BY <1>3, MaxOfTwo
<1> HIDE DEF m
<1>5. m \in Nat /\ x <= m /\ u <= m
  BY <1>3, <1>4
<1>6. peak' = [peak EXCEPT ![sc] = m]
  BY <1>1 DEF m, x, u
<1>7. /\ peak'[sc] = m /\ peak' \in [Large!LargeClasses -> Nat]
      /\ \A c \in Large!LargeClasses : c # sc => peak'[c] = peak[c]
  BY <1>1, <1>5, <1>6
<1>8. \A c \in Large!LargeClasses : peak[c] \in Nat
  BY <1>1
<1>9. \A c \in Large!LargeClasses : peak[c] <= peak'[c]
  BY <1>5, <1>7, <1>8 DEF x
<1> QED BY <1>5, <1>7, <1>9 DEF u
-----------------------------------------------------------------------------
(* Conjuncts of the invariant of variables that a step leaves alone. *)
LEMMA LargeKept ==
  ASSUME LargeIInv
  PROVE  /\ UNCHANGED blocks => BlocksApart'
         /\ UNCHANGED <<blocks, committed>> => FirstPages'
         /\ UNCHANGED <<l_pc, ptr, size, pagemap, blocks>> => LargeControl'
         /\ UNCHANGED <<pagemap, blocks, large_stack>> => StackedKnown'
         /\ UNCHANGED <<pagemap, blocks, l_held>> => HeldKnown'
<1>1. UNCHANGED blocks => BlocksApart'
  BY DEF LargeIInv, BlocksApart, Large!PagesOf
<1>2. UNCHANGED <<blocks, committed>> => FirstPages'
  BY DEF LargeIInv, FirstPages
<1>3. UNCHANGED <<l_pc, ptr, size, pagemap, blocks>> => LargeControl'
  BY DEF LargeIInv, LargeControl, Large!ClassOf, Large!next_pow2_bits
<1>4. UNCHANGED <<pagemap, blocks, large_stack>> => StackedKnown'
  BY DEF LargeIInv, StackedKnown
<1>5. UNCHANGED <<pagemap, blocks, l_held>> => HeldKnown'
  BY DEF LargeIInv, HeldKnown
<1> QED BY <1>1, <1>2, <1>3, <1>4, <1>5

(* The peaks remain as long as nothing is reserved. *)
LEMMA PeaksKept ==
  ASSUME LargeIInv, UNCHANGED blocks, IsFiniteSet(Threads),
         \A sc \in Large!LargeClasses : (ReservingOf(sc))' \subseteq ReservingOf(sc),
         peak' \in [Large!LargeClasses -> Nat], \A sc \in Large!LargeClasses : peak[sc] <= peak'[sc]
  PROVE  Peaks'
<1> SUFFICES ASSUME NEW sc \in Large!LargeClasses
             PROVE  Cardinality((OfClass(sc))') + Cardinality((ReservingOf(sc))') <= peak'[sc]
  BY DEF Peaks
<1>1. (OfClass(sc))' = OfClass(sc)
  BY DEF OfClass
<1>2. Cardinality(OfClass(sc)) + Cardinality(ReservingOf(sc)) <= peak[sc]
  BY DEF LargeIInv, Peaks
<1>3. IsFiniteSet(OfClass(sc))
  <2>1. OfClass(sc) \subseteq blocks /\ IsFiniteSet(blocks)
    BY DEF OfClass, LargeIInv, LargeTypes
  <2> QED BY <2>1, FS_Subset
<1>4. IsFiniteSet(ReservingOf(sc))
  <2>1. ReservingOf(sc) \subseteq Threads
    BY DEF ReservingOf, Large!Reserving
  <2> QED BY <2>1, FS_Subset
<1>5. IsFiniteSet((ReservingOf(sc))')
      /\ Cardinality((ReservingOf(sc))') <= Cardinality(ReservingOf(sc))
  BY <1>4, FS_Subset
<1>6. /\ Cardinality(OfClass(sc)) \in Nat /\ Cardinality(ReservingOf(sc)) \in Nat
      /\ Cardinality((ReservingOf(sc))') \in Nat
  BY <1>3, <1>4, <1>5, FS_CardinalityType
<1>7. peak[sc] \in Nat /\ peak'[sc] \in Nat /\ peak[sc] <= peak'[sc]
  BY DEF LargeIInv, LargeTypes
<1> QED BY <1>1, <1>2, <1>5, <1>6, <1>7

(* A freed block is given to the caller. *)
LEMMA LargePopStep ==
  ASSUME LargeIInv, NEW t \in Threads, NEW request \in Requests, Large!Pop(t, request)
  PROVE  LargeIInv'
<1>1. /\ LargeTypes /\ LargeControl /\ BlocksApart /\ BlocksOnce /\ BlocksPlaced
      /\ HeldKnown /\ StackedKnown /\ FirstPages /\ Peaks
  BY DEF LargeIInv
<1>2. PICK sc \in Large!LargeClasses : sc = Large!ClassOf(request) /\ request <= 2 ^ sc
  BY ClassFits
<1>3. /\ large_stack \in [Large!LargeClasses -> Seq(Large!Chunks)] /\ l_held \subseteq Large!Chunks \X Requests
      /\ ptr \in [Threads -> Large!Chunks \cup {Large!nullptr}]
  BY <1>1 DEF LargeTypes, Large!TypeOK
<1>4. /\ large_stack[sc] # <<>>
      /\ l_held' = l_held \cup {<<Head(large_stack[sc]), request>>}
      /\ large_stack' = [large_stack EXCEPT ![sc] = Tail(@)]
      /\ Large!Called(sc)
      /\ UNCHANGED <<l_pc, ptr, size, pagemap, blocks, committed>>
  BY <1>2 DEF Large!Pop
<1>5. PICK h : h = Head(large_stack[sc])
  OBVIOUS
<1>6. h \in Large!Chunks /\ h \in Range(large_stack[sc]) /\ Tail(large_stack[sc]) \in Seq(Large!Chunks)
  BY <1>3, <1>4, <1>5, SeqTail
<1>7. /\ IsInjective(Tail(large_stack[sc]))
      /\ Range(Tail(large_stack[sc])) = Range(large_stack[sc]) \ {h}
  <2>1. IsInjective(large_stack[sc]) /\ large_stack[sc] \in Seq(Large!Chunks)
    BY <1>1, <1>3 DEF BlocksOnce
  <2> QED BY <1>4, <1>5, <2>1, InjectiveTail
<1>8. /\ large_stack' \in [Large!LargeClasses -> Seq(Large!Chunks)]
      /\ large_stack'[sc] = Tail(large_stack[sc])
      /\ \A c \in Large!LargeClasses : c # sc => large_stack'[c] = large_stack[c]
  BY <1>3, <1>4, <1>6
<1>9. l_held' = l_held \cup {<<h, request>>}
  BY <1>4, <1>5
<1>10. peak' \in [Large!LargeClasses -> Nat] /\ \A c \in Large!LargeClasses : peak[c] <= peak'[c]
  BY <1>1, <1>4, PeakGrows, LargeSizes
<1>11. LargeTypes'
  <2>1. l_held' \subseteq Large!Chunks \X Requests
    BY <1>3, <1>6, <1>9
  <2> QED BY <1>1, <1>4, <1>8, <1>10, <2>1 DEF LargeTypes, Large!TypeOK
<1>12. LargeControl' /\ BlocksApart' /\ FirstPages'
  BY <1>4, LargeKept
<1>13. <<h, sc>> \in blocks /\ pagemap[h] = sc
  BY <1>1, <1>6 DEF StackedKnown
<1>14. \A c \in Large!LargeClasses : c # sc => h \notin Range(large_stack[c])
  BY <1>1, <1>13 DEF StackedKnown
<1>15. /\ \A o, q \in l_held : o[1] = q[1] => o = q
       /\ \A u, v \in Threads : ptr[u] = ptr[v] /\ ptr[u] # Large!nullptr => u = v
       /\ \A c \in Large!LargeClasses : IsInjective(large_stack[c])
       /\ \A o \in l_held : \A u \in Threads : o[1] # ptr[u]
       /\ \A o \in l_held : \A c \in Large!LargeClasses : o[1] \notin Range(large_stack[c])
       /\ \A u \in Threads : \A c \in Large!LargeClasses : ptr[u] \notin Range(large_stack[c])
  BY <1>1 DEF BlocksOnce
<1>16. \A o \in l_held' : o \in l_held \/ o = <<h, request>>
  BY <1>9
<1>17. BlocksOnce'
  <2>1. \A o, q \in l_held' : o[1] = q[1] => o = q
    BY <1>6, <1>15, <1>16
  <2>2. \A c \in Large!LargeClasses : IsInjective(large_stack'[c])
    BY <1>7, <1>8, <1>15
  <2>3. \A o \in l_held' : \A u \in Threads : o[1] # ptr[u]
    BY <1>6, <1>15, <1>16
  <2>4. \A c \in Large!LargeClasses : /\ h \notin Range(large_stack'[c])
                                /\ Range(large_stack'[c]) \subseteq Range(large_stack[c])
    BY <1>7, <1>8, <1>14
  <2>5. \A o \in l_held' : \A c \in Large!LargeClasses : o[1] \notin Range(large_stack'[c])
    BY <1>15, <1>16, <2>4
  <2>6. \A u \in Threads : \A c \in Large!LargeClasses : ptr[u] \notin Range(large_stack'[c])
    BY <1>15, <2>4
  <2> QED BY <1>4, <1>15, <2>1, <2>2, <2>3, <2>5, <2>6 DEF BlocksOnce
<1>18. BlocksPlaced'
  <2> SUFFICES ASSUME NEW b \in blocks
               PROVE  \/ \E o \in l_held' : o[1] = b[1]
                      \/ \E u \in Threads : ptr'[u] = b[1]
                      \/ b[1] \in Range(large_stack'[b[2]])
    BY <1>4 DEF BlocksPlaced
  <2>1. \/ \E o \in l_held : o[1] = b[1]
        \/ \E u \in Threads : ptr[u] = b[1]
        \/ b[1] \in Range(large_stack[b[2]])
    BY <1>1 DEF BlocksPlaced
  <2>2. b[2] \in Large!LargeClasses
    BY <1>1 DEF LargeTypes, Large!TypeOK
  <2>3. CASE b[1] = h
    <3>1. <<h, request>> \in l_held' /\ <<h, request>>[1] = b[1]
      BY <1>9, <2>3
    <3> QED BY <3>1
  <2>4. CASE b[1] # h
    BY <1>4, <1>7, <1>8, <1>9, <2>1, <2>2, <2>4
  <2> QED BY <2>3, <2>4
<1>19. HeldKnown'
  BY <1>1, <1>2, <1>4, <1>13, <1>16 DEF HeldKnown
<1>20. StackedKnown'
  <2>1. \A c \in Large!LargeClasses : Range(large_stack'[c]) \subseteq Range(large_stack[c])
    BY <1>7, <1>8
  <2> QED BY <1>1, <1>4, <2>1 DEF StackedKnown
<1>21. Peaks'
  <2>1. \A c \in Large!LargeClasses : (ReservingOf(c))' = ReservingOf(c)
    BY <1>4 DEF ReservingOf, Large!Reserving, Large!ClassOf, Large!next_pow2_bits
  <2> QED BY <1>4, <1>10, <2>1, PeaksKept, LargeSizes
<1> QED BY <1>11, <1>12, <1>17, <1>18, <1>19, <1>20, <1>21 DEF LargeIInv

(* There is none: one will be reserved. *)
LEMMA PopNothingStep ==
  ASSUME LargeIInv, NEW t \in Threads, NEW request \in Requests,
         Large!PopNothing(t, request)
  PROVE  LargeIInv'
<1>1. /\ LargeTypes /\ LargeControl /\ BlocksApart /\ BlocksOnce /\ BlocksPlaced
      /\ HeldKnown /\ StackedKnown /\ FirstPages /\ Peaks
  BY DEF LargeIInv
<1>2. PICK sc \in Large!LargeClasses : sc = Large!ClassOf(request)
  BY ClassFits
<1>3. /\ l_pc[t] = "idle" /\ large_stack[sc] = <<>>
      /\ l_pc' = [l_pc EXCEPT ![t] = "reserve"] /\ size' = [size EXCEPT ![t] = request]
      /\ Large!Called(sc)
      /\ UNCHANGED <<ptr, large_stack, pagemap, blocks, committed, l_held>>
  BY <1>2 DEF Large!PopNothing
<1>4. /\ l_pc \in [Threads -> {"idle", "reserve", "store", "decommit", "push"}]
      /\ size \in [Threads -> Requests \cup {0}]
  BY <1>1 DEF LargeTypes, Large!TypeOK
<1>5. /\ l_pc' \in [Threads -> {"idle", "reserve", "store", "decommit", "push"}]
      /\ l_pc'[t] = "reserve" /\ \A u \in Threads : u # t => l_pc'[u] = l_pc[u]
      /\ size' \in [Threads -> Requests \cup {0}]
      /\ size'[t] = request /\ \A u \in Threads : u # t => size'[u] = size[u]
  BY <1>3, <1>4
<1>6. /\ peak' \in [Large!LargeClasses -> Nat] /\ \A c \in Large!LargeClasses : peak[c] <= peak'[c]
      /\ Large!InUse(sc) + 1 <= peak'[sc]
  BY <1>1, <1>3, PeakGrows, LargeSizes
<1>7. LargeTypes'
  BY <1>1, <1>3, <1>5, <1>6 DEF LargeTypes, Large!TypeOK
<1>8. LargeControl'
  <2>1. ptr[t] = Large!nullptr
    BY <1>1, <1>3 DEF LargeControl
  <2>2. \A u \in Threads : u # t => (Large!ClassOf(size[u]))' = Large!ClassOf(size[u])
    BY <1>5
  <2> QED BY <1>1, <1>3, <1>5, <2>1, <2>2 DEF LargeControl
<1>9. BlocksApart' /\ FirstPages' /\ HeldKnown' /\ StackedKnown'
  BY <1>3, LargeKept
<1>10. BlocksOnce' /\ BlocksPlaced'
  BY <1>1, <1>3 DEF BlocksOnce, BlocksPlaced
<1>11. Peaks'
  <2> SUFFICES ASSUME NEW c \in Large!LargeClasses
               PROVE  Cardinality((OfClass(c))') + Cardinality((ReservingOf(c))') <= peak'[c]
    BY DEF Peaks
  <2>1. (OfClass(c))' = OfClass(c)
    BY <1>3 DEF OfClass
  <2>2. Cardinality(OfClass(c)) + Cardinality(ReservingOf(c)) <= peak[c]
    BY <1>1 DEF Peaks
  <2>3. \A u \in Threads : u # t => (u \in (ReservingOf(c))' <=> u \in ReservingOf(c))
    BY <1>5 DEF ReservingOf, Large!Reserving
  <2>4. /\ (ReservingOf(c))' \subseteq Threads /\ ReservingOf(c) \subseteq Threads
        /\ t \notin ReservingOf(c)
    BY <1>3 DEF ReservingOf, Large!Reserving
  <2>5. t \in (ReservingOf(c))' <=> c = sc
    BY <1>2, <1>5 DEF ReservingOf, Large!Reserving
  <2>6. IsFiniteSet(ReservingOf(c))
    BY <2>4, LargeSizes, FS_Subset
  <2>7. Cardinality(ReservingOf(c)) \in Nat
    BY <2>6, FS_CardinalityType
  <2>8. Cardinality(OfClass(c)) \in Nat
    <3>1. OfClass(c) \subseteq blocks /\ IsFiniteSet(blocks)
      BY <1>1 DEF OfClass, LargeTypes
    <3> QED BY <3>1, FS_Subset, FS_CardinalityType
  <2>9. peak[c] \in Nat /\ peak'[c] \in Nat /\ peak[c] <= peak'[c]
    BY <1>1, <1>6 DEF LargeTypes
  <2>10. CASE c # sc
    <3>1. (ReservingOf(c))' = ReservingOf(c)
      BY <2>3, <2>4, <2>5, <2>10
    <3> QED BY <2>1, <2>2, <2>7, <2>8, <2>9, <3>1
  <2>11. CASE c = sc
    <3>1. (ReservingOf(c))' = ReservingOf(c) \cup {t}
      BY <2>3, <2>4, <2>5, <2>11
    <3>2. Cardinality((ReservingOf(c))') = Cardinality(ReservingOf(c)) + 1
      BY <2>4, <2>6, <3>1, FS_AddElement
    <3>3. Large!InUse(c) = Cardinality(OfClass(c)) + Cardinality(ReservingOf(c))
      <4>1. Len(large_stack[c]) = 0
        BY <1>3, <2>11
      <4>2. Large!InUse(c) = Cardinality(OfClass(c)) - Len(large_stack[c]) + Cardinality(ReservingOf(c))
        BY LargeCounts DEF Large!InUse, OfClass, ReservingOf
      <4> QED BY <2>7, <2>8, <4>1, <4>2
    <3> QED BY <1>6, <2>1, <2>7, <2>8, <2>9, <2>11, <3>2, <3>3
  <2> QED BY <2>10, <2>11
<1> QED BY <1>7, <1>8, <1>9, <1>10, <1>11 DEF LargeIInv
(* Every address that is worked on, held or stacked is that of a block. *)
LEMMA AddressesOfBlocks ==
  ASSUME LargeIInv
  PROVE  /\ \A o \in l_held : \E b \in blocks : b[1] = o[1]
         /\ \A u \in Threads : ptr[u] # Large!nullptr => \E b \in blocks : b[1] = ptr[u]
         /\ \A sc \in Large!LargeClasses : \A q \in Range(large_stack[sc]) : \E b \in blocks : b[1] = q
<1>1. \A o \in l_held : \E b \in blocks : b[1] = o[1]
  <2> SUFFICES ASSUME NEW o \in l_held PROVE \E b \in blocks : b[1] = o[1]
    OBVIOUS
  <2>1. <<o[1], pagemap[o[1]]>> \in blocks
    BY DEF LargeIInv, HeldKnown
  <2>2. <<o[1], pagemap[o[1]]>>[1] = o[1]
    OBVIOUS
  <2> QED BY <2>1, <2>2
<1>2. \A u \in Threads : ptr[u] # Large!nullptr => \E b \in blocks : b[1] = ptr[u]
  <2> SUFFICES ASSUME NEW u \in Threads, ptr[u] # Large!nullptr PROVE \E b \in blocks : b[1] = ptr[u]
    OBVIOUS
  <2>1. l_pc[u] \in {"idle", "reserve", "store", "decommit", "push"}
    BY DEF LargeIInv, LargeTypes, Large!TypeOK
  <2>2. <<ptr[u], Large!ClassOf(size[u])>> \in blocks \/ <<ptr[u], pagemap[ptr[u]]>> \in blocks
    BY <2>1 DEF LargeIInv, LargeControl
  <2>3. <<ptr[u], Large!ClassOf(size[u])>>[1] = ptr[u] /\ <<ptr[u], pagemap[ptr[u]]>>[1] = ptr[u]
    OBVIOUS
  <2> QED BY <2>2, <2>3
<1>3. \A sc \in Large!LargeClasses : \A q \in Range(large_stack[sc]) : \E b \in blocks : b[1] = q
  <2> SUFFICES ASSUME NEW sc \in Large!LargeClasses, NEW q \in Range(large_stack[sc])
               PROVE  \E b \in blocks : b[1] = q
    OBVIOUS
  <2>1. <<q, sc>> \in blocks /\ <<q, sc>>[1] = q
    BY DEF LargeIInv, StackedKnown
  <2> QED BY <2>1
<1> QED BY <1>1, <1>2, <1>3

(* A block that nobody has is reserved for the request. *)
LEMMA ReserveStep ==
  ASSUME LargeIInv, NEW t \in Threads, Large!Reserve(t)
  PROVE  LargeIInv'
<1>1. /\ LargeTypes /\ LargeControl /\ BlocksApart /\ BlocksOnce /\ BlocksPlaced
      /\ HeldKnown /\ StackedKnown /\ FirstPages /\ Peaks
  BY DEF LargeIInv
<1>2. /\ l_pc \in [Threads -> {"idle", "reserve", "store", "decommit", "push"}]
      /\ ptr \in [Threads -> Large!Chunks \cup {Large!nullptr}]
      /\ blocks \subseteq Large!Chunks \X Large!LargeClasses /\ IsFiniteSet(blocks)
  BY <1>1 DEF LargeTypes, Large!TypeOK
<1>3. l_pc[t] = "reserve" /\ l_pc' = [l_pc EXCEPT ![t] = "store"]
      /\ UNCHANGED <<size, large_stack, pagemap, l_held, peak>>
  BY DEF Large!Reserve
<1>4. size[t] \in Requests /\ ptr[t] = Large!nullptr
  BY <1>1, <1>3 DEF LargeControl
<1>5. PICK sc \in Large!LargeClasses : sc = Large!ClassOf(size[t])
  BY <1>4, ClassFits
<1>6. PICK p \in Large!Unreserved(sc) : /\ ptr' = [ptr EXCEPT ![t] = p]
                                  /\ blocks' = blocks \cup {<<p, sc>>}
                                  /\ committed' = committed \cup Large!PagesOf(p, sc)
  BY <1>5 DEF Large!Reserve
<1>7. /\ p \in Large!Chunks /\ p \in Nat /\ p # Large!nullptr /\ sc \in Nat
      /\ \A b \in blocks : Large!PagesOf(p, sc) \cap Large!PagesOf(b[1], b[2]) = {}
  BY ChunkAddress, ClassNat DEF Large!Unreserved
<1>8. p \div Large!PageSize \in Large!PagesOf(p, sc)
  BY <1>7, FirstPage
<1>9. \A b \in blocks : b[1] # p
  <2> SUFFICES ASSUME NEW b \in blocks, b[1] = p PROVE FALSE
    OBVIOUS
  <2>1. b[2] \in Nat
    BY <1>2, ClassNat
  <2>2. p \div Large!PageSize \in Large!PagesOf(b[1], b[2])
    BY <1>7, <2>1, FirstPage
  <2> QED BY <1>7, <1>8, <2>2
<1>10. /\ \A o \in l_held : o[1] # p
       /\ \A u \in Threads : ptr[u] # p
       /\ \A c \in Large!LargeClasses : p \notin Range(large_stack[c])
  BY <1>7, <1>9, AddressesOfBlocks
<1>11. /\ l_pc' \in [Threads -> {"idle", "reserve", "store", "decommit", "push"}]
       /\ l_pc'[t] = "store" /\ \A u \in Threads : u # t => l_pc'[u] = l_pc[u]
       /\ ptr' \in [Threads -> Large!Chunks \cup {Large!nullptr}]
       /\ ptr'[t] = p /\ \A u \in Threads : u # t => ptr'[u] = ptr[u]
  BY <1>2, <1>3, <1>6, <1>7
<1>12. LargeTypes'
  <2>1. blocks' \subseteq Large!Chunks \X Large!LargeClasses
    BY <1>2, <1>6, <1>7
  <2>2. IsFiniteSet(blocks')
    BY <1>2, <1>6, FS_AddElement
  <2> QED BY <1>1, <1>3, <1>11, <2>1, <2>2 DEF LargeTypes, Large!TypeOK
<1>13. LargeControl'
  <2>1. \A u \in Threads : (Large!ClassOf(size[u]))' = Large!ClassOf(size[u])
    BY <1>3
  <2>2. (Large!ClassOf(size[t]))' = sc
    BY <1>5, <2>1
  <2>3. <<p, sc>> \in blocks' /\ \A b \in blocks : b \in blocks'
    BY <1>6
  <2> QED BY <1>1, <1>3, <1>4, <1>11, <2>1, <2>2, <2>3 DEF LargeControl
<1>14. BlocksApart'
  <2> SUFFICES ASSUME NEW b \in blocks', NEW c \in blocks', b # c
               PROVE  Large!PagesOf(b[1], b[2]) \cap Large!PagesOf(c[1], c[2]) = {}
    BY DEF BlocksApart, Large!PagesOf
  <2>1. (b \in blocks \/ b = <<p, sc>>) /\ (c \in blocks \/ c = <<p, sc>>)
    BY <1>6
  <2>2. CASE b \in blocks /\ c \in blocks
    BY <1>1, <2>2 DEF BlocksApart
  <2>3. CASE b \in blocks /\ c = <<p, sc>>
    BY <1>7, <2>3
  <2>4. CASE b = <<p, sc>> /\ c \in blocks
    BY <1>7, <2>4
  <2> QED BY <2>1, <2>2, <2>3, <2>4
<1>15. BlocksOnce'
  <2>1. \A u, v \in Threads : ptr'[u] = ptr'[v] /\ ptr'[u] # Large!nullptr => u = v
    BY <1>1, <1>10, <1>11 DEF BlocksOnce
  <2>2. \A o \in l_held : \A u \in Threads : o[1] # ptr'[u]
    BY <1>1, <1>10, <1>11 DEF BlocksOnce
  <2>3. \A u \in Threads : \A c \in Large!LargeClasses : ptr'[u] \notin Range(large_stack[c])
    BY <1>1, <1>10, <1>11 DEF BlocksOnce
  <2> QED BY <1>1, <1>3, <2>1, <2>2, <2>3 DEF BlocksOnce
<1>16. BlocksPlaced'
  <2> SUFFICES ASSUME NEW b \in blocks'
               PROVE  \/ \E o \in l_held : o[1] = b[1]
                      \/ \E u \in Threads : ptr'[u] = b[1]
                      \/ b[1] \in Range(large_stack[b[2]])
    BY <1>3 DEF BlocksPlaced
  <2>1. CASE b = <<p, sc>>
    BY <1>11, <2>1
  <2>2. CASE b \in blocks
    <3>1. \/ \E o \in l_held : o[1] = b[1]
          \/ \E u \in Threads : ptr[u] = b[1]
          \/ b[1] \in Range(large_stack[b[2]])
      BY <1>1, <2>2 DEF BlocksPlaced
    <3>2. b[1] # Large!nullptr
      BY <1>2, <2>2, ChunkAddress
    <3> QED BY <1>4, <1>11, <3>1, <3>2
  <2> QED BY <1>6, <2>1, <2>2
<1>17. HeldKnown' /\ StackedKnown'
  BY <1>1, <1>3, <1>6 DEF HeldKnown, StackedKnown
<1>18. FirstPages'
  BY <1>1, <1>6, <1>8 DEF FirstPages
<1>19. Peaks'
  <2> SUFFICES ASSUME NEW c \in Large!LargeClasses
               PROVE  Cardinality((OfClass(c))') + Cardinality((ReservingOf(c))') <= peak[c]
    BY <1>3 DEF Peaks
  <2>1. Cardinality(OfClass(c)) + Cardinality(ReservingOf(c)) <= peak[c] /\ peak[c] \in Nat
    BY <1>1 DEF Peaks, LargeTypes
  <2>2. \A u \in Threads : (Large!ClassOf(size[u]))' = Large!ClassOf(size[u])
    BY <1>3
  <2>3. (ReservingOf(c))' = ReservingOf(c) \ {t}
    BY <1>11, <2>2 DEF ReservingOf, Large!Reserving
  <2>4. t \in ReservingOf(c) <=> c = sc
    BY <1>3, <1>5 DEF ReservingOf, Large!Reserving
  <2>5. IsFiniteSet(ReservingOf(c))
    <3>1. ReservingOf(c) \subseteq Threads
      BY DEF ReservingOf, Large!Reserving
    <3> QED BY <3>1, LargeSizes, FS_Subset
  <2>6. IsFiniteSet(OfClass(c))
    <3>1. OfClass(c) \subseteq blocks
      BY DEF OfClass
    <3> QED BY <1>2, <3>1, FS_Subset
  <2>7. Cardinality(ReservingOf(c)) \in Nat /\ Cardinality(OfClass(c)) \in Nat
    BY <2>5, <2>6, FS_CardinalityType
  <2>8. CASE c # sc
    <3>1. (ReservingOf(c))' = ReservingOf(c)
      BY <2>3, <2>4, <2>8
    <3>2. (OfClass(c))' = OfClass(c)
      BY <1>6, <2>8 DEF OfClass
    <3> QED BY <2>1, <3>1, <3>2
  <2>9. CASE c = sc
    <3>1. Cardinality((ReservingOf(c))') = Cardinality(ReservingOf(c)) - 1
      BY <2>3, <2>4, <2>5, <2>9, FS_RemoveElement
    <3>2. (OfClass(c))' = OfClass(c) \cup {<<p, sc>>} /\ <<p, sc>> \notin OfClass(c)
      BY <1>6, <1>9, <2>9 DEF OfClass
    <3>3. Cardinality((OfClass(c))') = Cardinality(OfClass(c)) + 1
      BY <2>6, <3>2, FS_AddElement
    <3> QED BY <2>1, <2>7, <3>1, <3>3
  <2> QED BY <2>8, <2>9
<1> QED BY <1>12, <1>13, <1>14, <1>15, <1>16, <1>17, <1>18, <1>19 DEF LargeIInv

(* Its class is stored, and the caller has it. *)
LEMMA StoreStep ==
  ASSUME LargeIInv, NEW t \in Threads, Large!Store(t)
  PROVE  LargeIInv'
<1>1. /\ LargeTypes /\ LargeControl /\ BlocksApart /\ BlocksOnce /\ BlocksPlaced
      /\ HeldKnown /\ StackedKnown /\ FirstPages /\ Peaks
  BY DEF LargeIInv
<1>2. /\ l_pc \in [Threads -> {"idle", "reserve", "store", "decommit", "push"}]
      /\ ptr \in [Threads -> Large!Chunks \cup {Large!nullptr}]
      /\ size \in [Threads -> Requests \cup {0}]
      /\ blocks \subseteq Large!Chunks \X Large!LargeClasses /\ l_held \subseteq Large!Chunks \X Requests
      /\ pagemap \in [Large!Chunks -> Large!LargeClasses \cup {0}]
  BY <1>1 DEF LargeTypes, Large!TypeOK
<1>3. PICK p, request, sc : p = ptr[t] /\ request = size[t] /\ sc = Large!ClassOf(request)
  OBVIOUS
<1>4. l_pc[t] = "store" /\ UNCHANGED <<large_stack, blocks, committed, peak>>
      /\ pagemap' = [pagemap EXCEPT ![p] = sc] /\ l_held' = l_held \cup {<<p, request>>}
      /\ l_pc' = [l_pc EXCEPT ![t] = "idle"] /\ ptr' = [ptr EXCEPT ![t] = Large!nullptr]
      /\ size' = [size EXCEPT ![t] = 0]
  BY <1>3 DEF Large!Store, Large!Finish
<1>5. request \in Requests /\ <<p, sc>> \in blocks
  BY <1>1, <1>3, <1>4 DEF LargeControl
<1>6. p \in Large!Chunks /\ p # Large!nullptr /\ sc \in Large!LargeClasses /\ request <= 2 ^ sc
  <2>1. p \in Large!Chunks
    BY <1>2, <1>5
  <2> QED BY <1>3, <1>5, <2>1, ChunkAddress, ClassFits
<1>7. /\ l_pc' \in [Threads -> {"idle", "reserve", "store", "decommit", "push"}]
      /\ l_pc'[t] = "idle" /\ \A u \in Threads : u # t => l_pc'[u] = l_pc[u]
      /\ ptr' \in [Threads -> Large!Chunks \cup {Large!nullptr}]
      /\ ptr'[t] = Large!nullptr /\ \A u \in Threads : u # t => ptr'[u] = ptr[u]
      /\ size' \in [Threads -> Requests \cup {0}]
      /\ \A u \in Threads : u # t => size'[u] = size[u]
  BY <1>2, <1>4
<1>8. /\ pagemap' \in [Large!Chunks -> Large!LargeClasses \cup {0}] /\ pagemap'[p] = sc
      /\ \A q \in Large!Chunks : q # p => pagemap'[q] = pagemap[q]
  BY <1>2, <1>4, <1>6
<1>9. LargeTypes'
  <2>1. l_held' \subseteq Large!Chunks \X Requests
    BY <1>2, <1>4, <1>5, <1>6
  <2> QED BY <1>1, <1>4, <1>7, <1>8, <2>1 DEF LargeTypes, Large!TypeOK
<1>10. /\ \A o, q \in l_held : o[1] = q[1] => o = q
       /\ \A u, v \in Threads : ptr[u] = ptr[v] /\ ptr[u] # Large!nullptr => u = v
       /\ \A o \in l_held : \A u \in Threads : o[1] # ptr[u]
       /\ \A o \in l_held : \A c \in Large!LargeClasses : o[1] \notin Range(large_stack[c])
       /\ \A u \in Threads : \A c \in Large!LargeClasses : ptr[u] \notin Range(large_stack[c])
  BY <1>1 DEF BlocksOnce
<1>11. \A u \in Threads : u # t => ptr[u] # p
  BY <1>3, <1>6, <1>10
<1>12. /\ \A o \in l_held : o[1] # p
       /\ \A c \in Large!LargeClasses : p \notin Range(large_stack[c])
  BY <1>3, <1>10
<1>13. \A o \in l_held' : o \in l_held \/ o = <<p, request>>
  BY <1>4
<1>14. LargeControl'
  <2>1. \A u \in Threads : u # t => (Large!ClassOf(size[u]))' = Large!ClassOf(size[u])
    BY <1>7
  <2>2. \A u \in Threads : u # t /\ l_pc[u] \in {"decommit", "push"} => pagemap'[ptr[u]] = pagemap[ptr[u]]
    <3> SUFFICES ASSUME NEW u \in Threads, u # t, l_pc[u] \in {"decommit", "push"}
                 PROVE  pagemap'[ptr[u]] = pagemap[ptr[u]]
      OBVIOUS
    <3>1. <<ptr[u], pagemap[ptr[u]]>> \in blocks
      BY <1>1 DEF LargeControl
    <3>2. ptr[u] \in Large!Chunks
      BY <1>2, <3>1
    <3> QED BY <1>8, <1>11, <3>2
  <2> SUFFICES ASSUME NEW u \in Threads
               PROVE  /\ l_pc'[u] \in {"idle", "reserve"} => ptr'[u] = Large!nullptr
                      /\ l_pc'[u] \in {"reserve", "store"} => size'[u] \in Requests
                      /\ l_pc'[u] = "store" => <<ptr'[u], (Large!ClassOf(size[u]))'>> \in blocks
                      /\ l_pc'[u] \in {"decommit", "push"} => <<ptr'[u], pagemap'[ptr'[u]]>> \in blocks
    BY <1>4 DEF LargeControl
  <2>3. CASE u = t
    BY <1>7, <2>3
  <2>4. CASE u # t
    <3>1. /\ l_pc[u] \in {"idle", "reserve"} => ptr[u] = Large!nullptr
          /\ l_pc[u] \in {"reserve", "store"} => size[u] \in Requests
          /\ l_pc[u] = "store" => <<ptr[u], Large!ClassOf(size[u])>> \in blocks
          /\ l_pc[u] \in {"decommit", "push"} => <<ptr[u], pagemap[ptr[u]]>> \in blocks
      BY <1>1 DEF LargeControl
    <3>2. l_pc'[u] = l_pc[u] /\ ptr'[u] = ptr[u] /\ size'[u] = size[u]
      BY <1>7, <2>4
    <3>3. (Large!ClassOf(size[u]))' = Large!ClassOf(size[u])
      BY <2>1, <2>4
    <3> QED BY <2>2, <2>4, <3>1, <3>2, <3>3
  <2> QED BY <2>3, <2>4
<1>15. BlocksApart' /\ FirstPages'
  BY <1>4, LargeKept
<1>16. BlocksOnce'
  <2>1. \A o, q \in l_held' : o[1] = q[1] => o = q
    BY <1>10, <1>12, <1>13
  <2>2. \A u, v \in Threads : ptr'[u] = ptr'[v] /\ ptr'[u] # Large!nullptr => u = v
    BY <1>7, <1>10
  <2>3. \A o \in l_held : o[1] # Large!nullptr
    BY <1>2, ChunkAddress
  <2>4. \A o \in l_held' : \A u \in Threads : o[1] # ptr'[u]
    BY <1>6, <1>7, <1>10, <1>11, <1>13, <2>3
  <2>5. \A o \in l_held' : \A c \in Large!LargeClasses : o[1] \notin Range(large_stack[c])
    BY <1>10, <1>12, <1>13
  <2>6. \A c \in Large!LargeClasses : Large!nullptr \notin Range(large_stack[c])
    <3>1. \A c \in Large!LargeClasses : \A q \in Range(large_stack[c]) : <<q, c>> \in blocks
      BY <1>1 DEF StackedKnown
    <3> QED BY <1>2, <3>1, ChunkAddress
  <2>7. \A u \in Threads : \A c \in Large!LargeClasses : ptr'[u] \notin Range(large_stack[c])
    BY <1>7, <1>10, <2>6
  <2> QED BY <1>1, <1>4, <2>1, <2>2, <2>4, <2>5, <2>7 DEF BlocksOnce
<1>17. BlocksPlaced'
  <2> SUFFICES ASSUME NEW b \in blocks
               PROVE  \/ \E o \in l_held' : o[1] = b[1]
                      \/ \E u \in Threads : ptr'[u] = b[1]
                      \/ b[1] \in Range(large_stack[b[2]])
    BY <1>4 DEF BlocksPlaced
  <2>1. \/ \E o \in l_held : o[1] = b[1]
        \/ \E u \in Threads : ptr[u] = b[1]
        \/ b[1] \in Range(large_stack[b[2]])
    BY <1>1 DEF BlocksPlaced
  <2>2. CASE b[1] = p
    <3>1. <<p, request>> \in l_held' /\ <<p, request>>[1] = b[1]
      BY <1>4, <2>2
    <3> QED BY <3>1
  <2>3. CASE b[1] # p
    BY <1>3, <1>4, <1>7, <2>1, <2>3
  <2> QED BY <2>2, <2>3
<1>18. HeldKnown'
  <2> SUFFICES ASSUME NEW o \in l_held'
               PROVE  <<o[1], pagemap'[o[1]]>> \in blocks /\ o[2] <= 2 ^ pagemap'[o[1]]
    BY <1>4 DEF HeldKnown
  <2>1. CASE o = <<p, request>>
    BY <1>5, <1>6, <1>8, <2>1
  <2>2. CASE o \in l_held
    <3>1. <<o[1], pagemap[o[1]]>> \in blocks /\ o[2] <= 2 ^ pagemap[o[1]]
      BY <1>1, <2>2 DEF HeldKnown
    <3>2. pagemap'[o[1]] = pagemap[o[1]]
      BY <1>2, <1>8, <1>12, <2>2
    <3> QED BY <3>1, <3>2
  <2> QED BY <1>13, <2>1, <2>2
<1>19. StackedKnown'
  <2>1. \A c \in Large!LargeClasses : \A q \in Range(large_stack[c]) : q # p /\ q \in Large!Chunks
    <3>1. \A c \in Large!LargeClasses : \A q \in Range(large_stack[c]) : <<q, c>> \in blocks
      BY <1>1 DEF StackedKnown
    <3> QED BY <1>2, <1>12, <3>1
  <2> QED BY <1>1, <1>4, <1>8, <2>1 DEF StackedKnown
<1>20. Peaks'
  <2>1. \A c \in Large!LargeClasses : (ReservingOf(c))' \subseteq ReservingOf(c)
    BY <1>4, <1>7 DEF ReservingOf, Large!Reserving
  <2>2. peak' \in [Large!LargeClasses -> Nat] /\ \A c \in Large!LargeClasses : peak[c] <= peak'[c]
    BY <1>1, <1>4 DEF LargeTypes
  <2> QED BY <1>4, <2>1, <2>2, PeaksKept, LargeSizes
<1> QED BY <1>9, <1>14, <1>15, <1>16, <1>17, <1>18, <1>19, <1>20 DEF LargeIInv
(* A caller returns a block, which the call now has. *)
LEMMA DeallocateStep ==
  ASSUME LargeIInv, NEW t \in Threads, NEW obj \in l_held, Large!Deallocate(t, obj)
  PROVE  LargeIInv'
<1>1. /\ LargeTypes /\ LargeControl /\ BlocksApart /\ BlocksOnce /\ BlocksPlaced
      /\ HeldKnown /\ StackedKnown /\ FirstPages /\ Peaks
  BY DEF LargeIInv
<1>2. /\ l_pc \in [Threads -> {"idle", "reserve", "store", "decommit", "push"}]
      /\ ptr \in [Threads -> Large!Chunks \cup {Large!nullptr}]
      /\ blocks \subseteq Large!Chunks \X Large!LargeClasses /\ l_held \subseteq Large!Chunks \X Requests
  BY <1>1 DEF LargeTypes, Large!TypeOK
<1>3. PICK p \in Large!Chunks : p = obj[1] /\ p # Large!nullptr
  BY <1>2, ChunkAddress
<1>4. l_pc[t] = "idle" /\ UNCHANGED <<size, large_stack, pagemap, blocks, committed, peak>>
      /\ l_held' = l_held \ {obj}
      /\ l_pc' = [l_pc EXCEPT ![t] = "decommit"] /\ ptr' = [ptr EXCEPT ![t] = p]
  BY <1>3 DEF Large!Deallocate, Large!Go, Large!After
<1>5. /\ l_pc' \in [Threads -> {"idle", "reserve", "store", "decommit", "push"}]
      /\ l_pc'[t] = "decommit" /\ \A u \in Threads : u # t => l_pc'[u] = l_pc[u]
      /\ ptr' \in [Threads -> Large!Chunks \cup {Large!nullptr}]
      /\ ptr'[t] = p /\ \A u \in Threads : u # t => ptr'[u] = ptr[u]
  BY <1>2, <1>3, <1>4
<1>6. LargeTypes'
  BY <1>1, <1>2, <1>4, <1>5 DEF LargeTypes, Large!TypeOK
<1>7. <<p, pagemap[p]>> \in blocks
  BY <1>1, <1>3 DEF HeldKnown
<1>8. LargeControl'
  <2>1. \A u \in Threads : (Large!ClassOf(size[u]))' = Large!ClassOf(size[u])
    BY <1>4
  <2> QED BY <1>1, <1>4, <1>5, <1>7, <2>1 DEF LargeControl
<1>9. BlocksApart' /\ FirstPages' /\ StackedKnown'
  BY <1>4, LargeKept
<1>10. HeldKnown'
  BY <1>1, <1>4 DEF HeldKnown
<1>11. /\ \A o, q \in l_held : o[1] = q[1] => o = q
       /\ \A u, v \in Threads : ptr[u] = ptr[v] /\ ptr[u] # Large!nullptr => u = v
       /\ \A o \in l_held : \A u \in Threads : o[1] # ptr[u]
       /\ \A o \in l_held : \A c \in Large!LargeClasses : o[1] \notin Range(large_stack[c])
       /\ \A u \in Threads : \A c \in Large!LargeClasses : ptr[u] \notin Range(large_stack[c])
  BY <1>1 DEF BlocksOnce
<1>12. BlocksOnce'
  <2>1. \A o \in l_held' : o \in l_held /\ o[1] # p
    BY <1>3, <1>4, <1>11
  <2>2. /\ \A u \in Threads : ptr[u] # p
        /\ \A c \in Large!LargeClasses : p \notin Range(large_stack[c])
    BY <1>3, <1>11
  <2>3. \A u, v \in Threads : ptr'[u] = ptr'[v] /\ ptr'[u] # Large!nullptr => u = v
    BY <1>5, <1>11, <2>2
  <2>4. \A o \in l_held' : \A u \in Threads : o[1] # ptr'[u]
    BY <1>5, <1>11, <2>1
  <2>5. \A u \in Threads : \A c \in Large!LargeClasses : ptr'[u] \notin Range(large_stack[c])
    BY <1>5, <1>11, <2>2
  <2> QED BY <1>1, <1>4, <1>11, <2>1, <2>3, <2>4, <2>5 DEF BlocksOnce
<1>13. BlocksPlaced'
  <2> SUFFICES ASSUME NEW b \in blocks
               PROVE  \/ \E o \in l_held' : o[1] = b[1]
                      \/ \E u \in Threads : ptr'[u] = b[1]
                      \/ b[1] \in Range(large_stack[b[2]])
    BY <1>4 DEF BlocksPlaced
  <2>1. \/ \E o \in l_held : o[1] = b[1]
        \/ \E u \in Threads : ptr[u] = b[1]
        \/ b[1] \in Range(large_stack[b[2]])
    BY <1>1 DEF BlocksPlaced
  <2>2. ptr[t] = Large!nullptr /\ b[1] # Large!nullptr
    BY <1>1, <1>2, <1>4, ChunkAddress DEF LargeControl
  <2> QED BY <1>3, <1>4, <1>5, <2>1, <2>2
<1>14. Peaks'
  <2>1. \A u \in Threads : (Large!ClassOf(size[u]))' = Large!ClassOf(size[u])
    BY <1>4
  <2>2. \A c \in Large!LargeClasses : (ReservingOf(c))' \subseteq ReservingOf(c)
    BY <1>5, <2>1 DEF ReservingOf, Large!Reserving
  <2>3. peak' \in [Large!LargeClasses -> Nat] /\ \A c \in Large!LargeClasses : peak[c] <= peak'[c]
    BY <1>1, <1>4 DEF LargeTypes
  <2> QED BY <1>4, <2>2, <2>3, PeaksKept, LargeSizes
<1> QED BY <1>6, <1>8, <1>9, <1>10, <1>12, <1>13, <1>14 DEF LargeIInv

(* Its pages are decommitted but the first, and no page of another block. *)
LEMMA DecommitOwn ==
  ASSUME LargeIInv, NEW t \in Threads, Large!Decommit(t)
  PROVE  \E d \in blocks : /\ d[1] = ptr[t] /\ d[1] # Large!nullptr
                           /\ committed' = committed \ (Large!PagesOf(d[1], d[2]) \ {d[1] \div Large!PageSize})
<1>1. l_pc[t] = "decommit"
      /\ committed' = committed \ (Large!PagesOf(ptr[t], pagemap[ptr[t]]) \ {ptr[t] \div Large!PageSize})
  BY DEF Large!Decommit
<1>2. <<ptr[t], pagemap[ptr[t]]>> \in blocks
  BY <1>1 DEF LargeIInv, LargeControl
<1>3. ptr[t] # Large!nullptr
  <2>1. ptr[t] \in Large!Chunks
    BY <1>2 DEF LargeIInv, LargeTypes, Large!TypeOK
  <2> QED BY <2>1, ChunkAddress
<1> QED BY <1>1, <1>2, <1>3

(* A step that decommits a freed block touches no page of another block,   *)
(* and not its own first one.                                              *)
LEMMA DecommitStep ==
  ASSUME LargeIInv, NEW t \in Threads, Large!Decommit(t)
  PROVE  LargeIInv'
<1>1. /\ LargeTypes /\ LargeControl /\ BlocksApart /\ BlocksOnce /\ BlocksPlaced
      /\ HeldKnown /\ StackedKnown /\ FirstPages /\ Peaks
  BY DEF LargeIInv
<1>2. /\ l_pc \in [Threads -> {"idle", "reserve", "store", "decommit", "push"}]
      /\ ptr \in [Threads -> Large!Chunks \cup {Large!nullptr}]
      /\ blocks \subseteq Large!Chunks \X Large!LargeClasses
  BY <1>1 DEF LargeTypes, Large!TypeOK
<1>3. l_pc[t] = "decommit" /\ UNCHANGED <<ptr, size, large_stack, pagemap, blocks, l_held, peak>>
      /\ l_pc' = [l_pc EXCEPT ![t] = "push"]
  BY <1>2 DEF Large!Decommit, Large!Go, Large!After
<1>4. /\ l_pc' \in [Threads -> {"idle", "reserve", "store", "decommit", "push"}]
      /\ l_pc'[t] = "push" /\ \A u \in Threads : u # t => l_pc'[u] = l_pc[u]
  BY <1>2, <1>3
<1>5. LargeTypes'
  BY <1>1, <1>3, <1>4 DEF LargeTypes, Large!TypeOK
<1>6. \A u \in Threads : (Large!ClassOf(size[u]))' = Large!ClassOf(size[u])
  BY <1>3
<1>7. LargeControl'
  BY <1>1, <1>3, <1>4, <1>6 DEF LargeControl
<1>8. BlocksApart' /\ StackedKnown' /\ HeldKnown'
  BY <1>3, LargeKept
<1>9. BlocksOnce' /\ BlocksPlaced'
  BY <1>1, <1>3 DEF BlocksOnce, BlocksPlaced
<1>10. FirstPages'
  <2>1. PICK d \in blocks : committed' = committed \ (Large!PagesOf(d[1], d[2]) \ {d[1] \div Large!PageSize})
    BY DecommitOwn
  <2> SUFFICES ASSUME NEW b \in blocks PROVE b[1] \div Large!PageSize \in committed'
    BY <1>3 DEF FirstPages
  <2>2. b[1] \div Large!PageSize \in committed
    BY <1>1 DEF FirstPages
  <2>3. CASE b = d
    BY <2>1, <2>2, <2>3
  <2>4. CASE b # d
    <3>1. b[1] \div Large!PageSize \in Large!PagesOf(b[1], b[2])
      BY <1>2, ChunkAddress, ClassNat, FirstPage
    <3>2. b[1] \div Large!PageSize \notin Large!PagesOf(d[1], d[2])
      BY <1>1, <2>4, <3>1 DEF BlocksApart
    <3> QED BY <2>1, <2>2, <3>2
  <2> QED BY <2>3, <2>4
<1>11. Peaks'
  <2>1. \A c \in Large!LargeClasses : (ReservingOf(c))' \subseteq ReservingOf(c)
    BY <1>4, <1>6 DEF ReservingOf, Large!Reserving
  <2>2. peak' \in [Large!LargeClasses -> Nat] /\ \A c \in Large!LargeClasses : peak[c] <= peak'[c]
    BY <1>1, <1>3 DEF LargeTypes
  <2> QED BY <1>3, <2>1, <2>2, PeaksKept, LargeSizes
<1> QED BY <1>5, <1>7, <1>8, <1>9, <1>10, <1>11 DEF LargeIInv

(* And it is the first on the stack of its class. *)
LEMMA PushStep ==
  ASSUME LargeIInv, NEW t \in Threads, Large!Push(t)
  PROVE  LargeIInv'
<1>1. /\ LargeTypes /\ LargeControl /\ BlocksApart /\ BlocksOnce /\ BlocksPlaced
      /\ HeldKnown /\ StackedKnown /\ FirstPages /\ Peaks
  BY DEF LargeIInv
<1>2. /\ l_pc \in [Threads -> {"idle", "reserve", "store", "decommit", "push"}]
      /\ ptr \in [Threads -> Large!Chunks \cup {Large!nullptr}]
      /\ blocks \subseteq Large!Chunks \X Large!LargeClasses /\ l_held \subseteq Large!Chunks \X Requests
      /\ large_stack \in [Large!LargeClasses -> Seq(Large!Chunks)]
  BY <1>1 DEF LargeTypes, Large!TypeOK
<1>3. PICK p, sc : p = ptr[t] /\ sc = pagemap[p]
  OBVIOUS
<1>4. l_pc[t] = "push" /\ UNCHANGED <<size, pagemap, blocks, committed, l_held, peak>>
      /\ large_stack' = [large_stack EXCEPT ![sc] = <<p>> \o @]
      /\ l_pc' = [l_pc EXCEPT ![t] = "idle"] /\ ptr' = [ptr EXCEPT ![t] = Large!nullptr]
  BY <1>3 DEF Large!Push, Large!Go, Large!After
<1>5. <<p, sc>> \in blocks
  BY <1>1, <1>3, <1>4 DEF LargeControl
<1>6. p \in Large!Chunks /\ sc \in Large!LargeClasses /\ p # Large!nullptr
  BY <1>2, <1>5, ChunkAddress
<1>7. /\ l_pc' \in [Threads -> {"idle", "reserve", "store", "decommit", "push"}]
      /\ l_pc'[t] = "idle" /\ \A u \in Threads : u # t => l_pc'[u] = l_pc[u]
      /\ ptr' \in [Threads -> Large!Chunks \cup {Large!nullptr}]
      /\ ptr'[t] = Large!nullptr /\ \A u \in Threads : u # t => ptr'[u] = ptr[u]
  BY <1>2, <1>4
<1>8. /\ \A o, q \in l_held : o[1] = q[1] => o = q
      /\ \A u, v \in Threads : ptr[u] = ptr[v] /\ ptr[u] # Large!nullptr => u = v
      /\ \A c \in Large!LargeClasses : IsInjective(large_stack[c])
      /\ \A o \in l_held : \A u \in Threads : o[1] # ptr[u]
      /\ \A o \in l_held : \A c \in Large!LargeClasses : o[1] \notin Range(large_stack[c])
      /\ \A u \in Threads : \A c \in Large!LargeClasses : ptr[u] \notin Range(large_stack[c])
  BY <1>1 DEF BlocksOnce
<1>9. /\ \A u \in Threads : u # t => ptr[u] # p
      /\ \A o \in l_held : o[1] # p
      /\ \A c \in Large!LargeClasses : p \notin Range(large_stack[c])
  BY <1>3, <1>6, <1>8
<1>10. PICK l \in Seq(Large!Chunks) : l = large_stack[sc]
  BY <1>2, <1>6
<1>11. /\ <<p>> \o l \in Seq(Large!Chunks) /\ Range(<<p>> \o l) = {p} \cup Range(l)
       /\ IsInjective(<<p>> \o l)
  <2>1. p \notin Range(l) /\ IsInjective(l)
    BY <1>6, <1>8, <1>9, <1>10
  <2> QED BY <1>6, <2>1, SeqCons, InjectiveCons
<1>12. /\ large_stack' \in [Large!LargeClasses -> Seq(Large!Chunks)]
       /\ large_stack'[sc] = <<p>> \o l
       /\ \A c \in Large!LargeClasses : c # sc => large_stack'[c] = large_stack[c]
  BY <1>2, <1>4, <1>6, <1>10, <1>11
<1>13. LargeTypes'
  BY <1>1, <1>4, <1>7, <1>12 DEF LargeTypes, Large!TypeOK
<1>14. \A u \in Threads : (Large!ClassOf(size[u]))' = Large!ClassOf(size[u])
  BY <1>4
<1>15. LargeControl'
  BY <1>1, <1>4, <1>7, <1>14 DEF LargeControl
<1>16. BlocksApart' /\ FirstPages' /\ HeldKnown'
  BY <1>4, LargeKept
<1>17. \A c \in Large!LargeClasses : \A q \in Range(large_stack'[c]) :
         q \in Range(large_stack[c]) \/ (q = p /\ c = sc)
  BY <1>10, <1>11, <1>12
<1>18. \A c \in Large!LargeClasses : Range(large_stack[c]) \subseteq Range(large_stack'[c])
  BY <1>10, <1>11, <1>12
<1>19. BlocksOnce'
  <2>1. \A u, v \in Threads : ptr'[u] = ptr'[v] /\ ptr'[u] # Large!nullptr => u = v
    BY <1>7, <1>8
  <2>2. \A c \in Large!LargeClasses : IsInjective(large_stack'[c])
    BY <1>8, <1>11, <1>12
  <2>3. \A o \in l_held : o[1] # Large!nullptr
    BY <1>2, ChunkAddress
  <2>4. \A o \in l_held : \A u \in Threads : o[1] # ptr'[u]
    BY <1>7, <1>8, <2>3
  <2>5. \A o \in l_held : \A c \in Large!LargeClasses : o[1] \notin Range(large_stack'[c])
    BY <1>8, <1>9, <1>17
  <2>6. \A c \in Large!LargeClasses : Large!nullptr \notin Range(large_stack'[c])
    <3>1. \A c \in Large!LargeClasses : \A q \in Range(large_stack[c]) : <<q, c>> \in blocks
      BY <1>1 DEF StackedKnown
    <3> QED BY <1>2, <1>6, <1>17, <3>1, ChunkAddress, ZenonT(40)
  <2>7. \A u \in Threads : \A c \in Large!LargeClasses : ptr'[u] \notin Range(large_stack'[c])
    BY <1>7, <1>8, <1>9, <1>17, <2>6
  <2> QED BY <1>4, <1>8, <2>1, <2>2, <2>4, <2>5, <2>7 DEF BlocksOnce
<1>20. BlocksPlaced'
  <2> SUFFICES ASSUME NEW b \in blocks
               PROVE  \/ \E o \in l_held : o[1] = b[1]
                      \/ \E u \in Threads : ptr'[u] = b[1]
                      \/ b[1] \in Range(large_stack'[b[2]])
    BY <1>4 DEF BlocksPlaced
  <2>1. \/ \E o \in l_held : o[1] = b[1]
        \/ \E u \in Threads : ptr[u] = b[1]
        \/ b[1] \in Range(large_stack[b[2]])
    BY <1>1 DEF BlocksPlaced
  <2>2. CASE b[1] = p
    <3>1. <<p, sc>>[1] = b[1]
      BY <2>2
    <3>2. b = <<p, sc>>
      BY <1>1, <1>5, <3>1, SameAddress
    <3>3. b[2] = sc
      BY <3>2
    <3> QED BY <1>11, <1>12, <2>2, <3>3
  <2>3. CASE b[1] # p
    <3>1. b[2] \in Large!LargeClasses
      BY <1>2
    <3> QED BY <1>3, <1>7, <1>18, <2>1, <2>3, <3>1
  <2> QED BY <2>2, <2>3
<1>21. StackedKnown'
  BY <1>1, <1>3, <1>4, <1>5, <1>17 DEF StackedKnown
<1>22. Peaks'
  <2>1. \A c \in Large!LargeClasses : (ReservingOf(c))' \subseteq ReservingOf(c)
    BY <1>7, <1>14 DEF ReservingOf, Large!Reserving
  <2>2. peak' \in [Large!LargeClasses -> Nat] /\ \A c \in Large!LargeClasses : peak[c] <= peak'[c]
    BY <1>1, <1>4 DEF LargeTypes
  <2> QED BY <1>4, <2>1, <2>2, PeaksKept, LargeSizes
<1> QED BY <1>13, <1>15, <1>16, <1>19, <1>20, <1>21, <1>22 DEF LargeIInv

-----------------------------------------------------------------------------
(* Every step keeps the invariant.                                         *)
LEMMA LargeNextStep ==
  ASSUME LargeIInv, [Large!Next]_Large!vars
  PROVE  LargeIInv'
<1>1. CASE UNCHANGED Large!vars
  <2>1. LargeControl' /\ BlocksApart' /\ FirstPages' /\ HeldKnown' /\ StackedKnown'
    BY <1>1, LargeKept DEF Large!vars
  <2>2. LargeTypes' /\ BlocksOnce' /\ BlocksPlaced'
    BY <1>1 DEF Large!vars, LargeIInv, LargeTypes, Large!TypeOK, BlocksOnce, BlocksPlaced
  <2>3. Peaks'
    <3>1. \A c \in Large!LargeClasses : (ReservingOf(c))' \subseteq ReservingOf(c)
      <4>1. \A u : (Large!ClassOf(size[u]))' = Large!ClassOf(size[u])
        BY <1>1 DEF Large!vars
      <4> QED BY <1>1, <4>1 DEF ReservingOf, Large!Reserving, Large!vars
    <3>2. peak' \in [Large!LargeClasses -> Nat] /\ \A c \in Large!LargeClasses : peak[c] <= peak'[c]
      BY <1>1 DEF LargeIInv, LargeTypes, Large!vars
    <3> QED BY <1>1, <3>1, <3>2, PeaksKept, LargeSizes DEF Large!vars
  <2> QED BY <2>1, <2>2, <2>3 DEF LargeIInv
<1>2. CASE Large!Next
  <2>1. PICK t \in Threads :
          \/ \E request \in Requests : /\ Large!Room(request)
                                       /\ Large!Pop(t, request) \/ Large!PopNothing(t, request)
          \/ Large!Reserve(t) \/ Large!Store(t)
          \/ \E obj \in l_held : Large!Deallocate(t, obj)
          \/ Large!Decommit(t) \/ Large!Push(t)
    BY <1>2 DEF Large!Next
  <2> QED BY <2>1, LargePopStep, PopNothingStep, ReserveStep, StoreStep, DeallocateStep,
             DecommitStep, PushStep
<1> QED BY <1>1, <1>2
-----------------------------------------------------------------------------
(* What the invariant is for. *)
LEMMA BlocksInOnePlace ==
  ASSUME LargeIInv
  PROVE  Large!OnePlace
<1> SUFFICES ASSUME NEW b \in blocks
             PROVE  Cardinality({obj \in l_held : obj[1] = b[1]})
                      + Cardinality({t \in Threads : l_pc[t] # "idle" /\ ptr[t] = b[1]})
                      + Cardinality({n \in DOMAIN large_stack[b[2]] : large_stack[b[2]][n] = b[1]}) = 1
  BY LargeCounts DEF Large!OnePlace
<1> DEFINE H == {obj \in l_held : obj[1] = b[1]}
           C == {t \in Threads : l_pc[t] # "idle" /\ ptr[t] = b[1]}
           S == {n \in DOMAIN large_stack[b[2]] : large_stack[b[2]][n] = b[1]}
<1>1. b[1] \in Large!Chunks /\ b[2] \in Large!LargeClasses /\ b[1] # Large!nullptr
  <2>1. b \in Large!Chunks \X Large!LargeClasses
    BY DEF LargeIInv, LargeTypes, Large!TypeOK
  <2> QED BY <2>1, ChunkAddress
<1>2. /\ \A o, q \in l_held : o[1] = q[1] => o = q
      /\ \A u, v \in Threads : ptr[u] = ptr[v] /\ ptr[u] # Large!nullptr => u = v
      /\ IsInjective(large_stack[b[2]])
      /\ \A o \in l_held : \A u \in Threads : o[1] # ptr[u]
      /\ \A o \in l_held : o[1] \notin Range(large_stack[b[2]])
      /\ \A u \in Threads : ptr[u] \notin Range(large_stack[b[2]])
  BY <1>1 DEF LargeIInv, BlocksOnce
<1>3. \/ \E o \in l_held : o[1] = b[1]
      \/ \E t \in Threads : ptr[t] = b[1]
      \/ b[1] \in Range(large_stack[b[2]])
  BY DEF LargeIInv, BlocksPlaced
<1>4. \A t \in Threads : ptr[t] = b[1] => l_pc[t] # "idle"
  BY <1>1 DEF LargeIInv, LargeControl
<1>5. b[1] \notin Range(large_stack[b[2]]) => S = {}
  BY DEF Range
<1>6. CASE \E o \in l_held : o[1] = b[1]
  <2>1. PICK o \in l_held : o[1] = b[1]
    BY <1>6
  <2>2. H = {o}
    BY <1>2, <2>1
  <2>3. C = {}
    BY <1>2, <2>1
  <2>4. S = {}
    BY <1>2, <1>5, <2>1
  <2> HIDE DEF H, C, S
  <2>5. Cardinality(H) = 1 /\ Cardinality(C) = 0 /\ Cardinality(S) = 0
    BY <2>2, <2>3, <2>4, FS_EmptySet, FS_Singleton
  <2>6. Cardinality(H) + Cardinality(C) + Cardinality(S) = 1
    BY <2>5
  <2> QED BY <2>6 DEF H, C, S
<1>7. CASE \E t \in Threads : ptr[t] = b[1]
  <2>1. PICK t \in Threads : ptr[t] = b[1]
    BY <1>7
  <2>2. C = {t}
    BY <1>1, <1>2, <1>4, <2>1
  <2>3. H = {}
    BY <1>2, <2>1
  <2>4. S = {}
    BY <1>2, <1>5, <2>1
  <2> HIDE DEF H, C, S
  <2>5. Cardinality(H) = 0 /\ Cardinality(C) = 1 /\ Cardinality(S) = 0
    BY <2>2, <2>3, <2>4, FS_EmptySet, FS_Singleton
  <2>6. Cardinality(H) + Cardinality(C) + Cardinality(S) = 1
    BY <2>5
  <2> QED BY <2>6 DEF H, C, S
<1>8. CASE b[1] \in Range(large_stack[b[2]])
  <2>1. PICK k \in DOMAIN large_stack[b[2]] : large_stack[b[2]][k] = b[1]
    BY <1>8 DEF Range
  <2>2. S = {k}
    BY <1>2, <2>1 DEF IsInjective
  <2>3. H = {} /\ C = {}
    BY <1>2, <1>8
  <2> HIDE DEF H, C, S
  <2>4. Cardinality(H) = 0 /\ Cardinality(C) = 0 /\ Cardinality(S) = 1
    BY <2>2, <2>3, FS_EmptySet, FS_Singleton
  <2>5. Cardinality(H) + Cardinality(C) + Cardinality(S) = 1
    BY <2>4
  <2> QED BY <2>5 DEF H, C, S
<1> QED BY <1>3, <1>6, <1>7, <1>8

(* What the invariant implies of sizes, links and reuse.                   *)
LEMMA BlocksSound ==
  ASSUME LargeIInv
  PROVE  Large!BigEnough /\ Large!NodesCommitted /\ Large!ReusedBeforeReserved
<1>1. Large!BigEnough
  <2> SUFFICES ASSUME NEW obj \in l_held
               PROVE  \E b \in blocks : b[1] = obj[1] /\ obj[2] <= 2 ^ b[2] /\ pagemap[b[1]] = b[2]
    BY DEF Large!BigEnough
  <2>1. <<obj[1], pagemap[obj[1]]>> \in blocks /\ obj[2] <= 2 ^ pagemap[obj[1]]
    BY DEF LargeIInv, HeldKnown
  <2>2. PICK b \in blocks : b = <<obj[1], pagemap[obj[1]]>>
    BY <2>1
  <2> QED BY <2>1, <2>2
<1>2. Large!NodesCommitted
  <2> SUFFICES ASSUME NEW sc \in Large!LargeClasses, NEW p \in Large!Stacked(sc)
               PROVE  p \div Large!PageSize \in committed
    BY DEF Large!NodesCommitted
  <2>1. p \in Range(large_stack[sc])
    BY DEF Large!Stacked, Range
  <2>2. <<p, sc>> \in blocks
    BY <2>1 DEF LargeIInv, StackedKnown
  <2>3. <<p, sc>>[1] \div Large!PageSize \in committed
    BY <2>2 DEF LargeIInv, FirstPages
  <2> QED BY <2>3
<1>3. Large!ReusedBeforeReserved
  <2> SUFFICES ASSUME NEW sc \in Large!LargeClasses
               PROVE  Cardinality(OfClass(sc)) <= peak[sc]
    BY LargeCounts DEF Large!ReusedBeforeReserved, OfClass
  <2>1. Cardinality(OfClass(sc)) + Cardinality(ReservingOf(sc)) <= peak[sc]
    BY DEF LargeIInv, Peaks
  <2>2. Cardinality(OfClass(sc)) \in Nat
    <3>1. OfClass(sc) \subseteq blocks /\ IsFiniteSet(blocks)
      BY DEF OfClass, LargeIInv, LargeTypes
    <3> QED BY <3>1, FS_Subset, FS_CardinalityType
  <2>3. Cardinality(ReservingOf(sc)) \in Nat
    <3>1. ReservingOf(sc) \subseteq Threads
      BY DEF ReservingOf, Large!Reserving
    <3> QED BY <3>1, LargeSizes, FS_Subset, FS_CardinalityType
  <2>4. peak[sc] \in Nat
    BY DEF LargeIInv, LargeTypes
  <2> QED BY <2>1, <2>2, <2>3, <2>4
<1> QED BY <1>1, <1>2, <1>3

(* A step decommits no page of a block that is held before and after it. *)
LEMMA Undisturbed ==
  ASSUME LargeIInv, [Large!Next]_Large!vars
  PROVE  \A b \in blocks : (\E obj \in l_held \cap l_held' : obj[1] = b[1])
                             => committed \cap Large!PagesOf(b[1], b[2]) \subseteq committed'
<1> SUFFICES ASSUME NEW b \in blocks, NEW obj \in l_held \cap l_held', obj[1] = b[1]
             PROVE  committed \cap Large!PagesOf(b[1], b[2]) \subseteq committed'
  OBVIOUS
<1>1. ASSUME NEW t \in Threads, Large!Decommit(t)
      PROVE  committed \cap Large!PagesOf(b[1], b[2]) \subseteq committed'
  <2>1. PICK d \in blocks : /\ d[1] = ptr[t]
                            /\ committed' = committed \ (Large!PagesOf(d[1], d[2]) \ {d[1] \div Large!PageSize})
    BY <1>1, DecommitOwn
  <2>2. d # b
    BY <2>1 DEF LargeIInv, BlocksOnce
  <2>3. Large!PagesOf(b[1], b[2]) \cap Large!PagesOf(d[1], d[2]) = {}
    BY <2>2 DEF LargeIInv, BlocksApart
  <2> QED BY <2>1, <2>3
<1>2. CASE committed \subseteq committed'
  BY <1>2
<1>3. committed \subseteq committed' \/ \E t \in Threads : Large!Decommit(t)
  <2>1. CASE UNCHANGED Large!vars
    BY <2>1 DEF Large!vars
  <2>2. CASE Large!Next
    <3>1. PICK t \in Threads :
            \/ \E request \in Requests : /\ Large!Room(request)
                                         /\ Large!Pop(t, request) \/ Large!PopNothing(t, request)
            \/ Large!Reserve(t) \/ Large!Store(t)
            \/ \E o \in l_held : Large!Deallocate(t, o)
            \/ Large!Decommit(t) \/ Large!Push(t)
      BY <2>2 DEF Large!Next
    <3> QED BY <3>1 DEF Large!Pop, Large!PopNothing, Large!Reserve, Large!Store, Large!Deallocate, Large!Push
  <2> QED BY <2>1, <2>2
<1> QED BY <1>1, <1>2, <1>3

-----------------------------------------------------------------------------
SharedIInv == PoolIInv /\ LargeIInv

(* Initially and after every step of either part both invariants hold. *)
LEMMA SharedInitStep == SharedInit => SharedIInv
<1> SUFFICES ASSUME SharedInit PROVE SharedIInv
  OBVIOUS
<1>1. Init /\ Large!Init
  BY DEF SharedInit
<1>2. PoolIInv
  BY <1>1, PoolInit
<1>3. LargeIInv
  BY <1>1, LargeInitStep
<1> QED BY <1>2, <1>3 DEF SharedIInv

(* A step of SharedParts is a step or a stutter of each part.              *)
LEMMA BothParts ==
  [SharedNext]_<<part, vars, large_vars>> => [Next]_vars /\ [Large!Next]_Large!vars
BY DEF SharedNext, vars, large_vars, Large!vars

(* So it keeps both invariants.                                            *)
LEMMA SharedStep ==
  SharedIInv /\ [SharedNext]_<<part, vars, large_vars>> => SharedIInv'
<1> SUFFICES ASSUME SharedIInv, [SharedNext]_<<part, vars, large_vars>> PROVE SharedIInv'
  OBVIOUS
<1>1. [Next]_vars /\ [Large!Next]_Large!vars
  BY BothParts
<1>2. PoolIInv'
  BY <1>1, PoolNext DEF SharedIInv
<1>3. LargeIInv'
  BY <1>1, LargeNextStep DEF SharedIInv
<1> QED BY <1>2, <1>3 DEF SharedIInv

(* The invariants of both parts hold always. *)
THEOREM SharedInductive == SharedSpec => []SharedIInv
<1> QED BY SharedInitStep, SharedStep, PTL DEF SharedSpec

(* Nobody is given an object or a block that somebody else has. *)
THEOREM NobodySharesAlways == SharedSpec => []NobodyShares
<1>1. SharedIInv => NobodyShares
  BY ObjectsOnce, BlocksInOnePlace DEF SharedIInv, NobodyShares
<1> QED BY <1>1, SharedInductive, PTL

(* Slabs with room wait in one place, and there are few of them. *)
THEOREM SlabsAccountedAlways == SharedSpec => []SlabsAccounted
<1>1. SharedIInv => SlabsAccounted
  BY SlabsApart DEF SharedIInv, PoolIInv, SlabsAccounted
<1> QED BY <1>1, SharedInductive, PTL

(* Objects are in their slabs, blocks are big enough, links are committed. *)
THEOREM MemorySoundAlways == SharedSpec => []MemorySound
<1>1. SharedIInv => MemorySound
  BY ObjectsInside, BlocksSound DEF SharedIInv, MemorySound
<1> QED BY <1>1, SharedInductive, PTL

(* A block is reserved only when no freed one of its class is left. *)
THEOREM ReusedBeforeReservedAlways == SharedSpec => []ReusedBeforeReserved
<1>1. SharedIInv => ReusedBeforeReserved
  BY BlocksSound DEF SharedIInv, ReusedBeforeReserved
<1> QED BY <1>1, SharedInductive, PTL

(* No step decommits a page of a block that a caller has. *)
THEOREM HeldUndisturbedAlways == SharedSpec => HeldUndisturbed
<1>1. SharedIInv /\ [SharedNext]_<<part, vars, large_vars>>
        => [\A b \in blocks :
              (\E obj \in l_held \cap l_held' : obj[1] = b[1])
                => committed \cap Large!PagesOf(b[1], b[2]) \subseteq committed']_Large!vars
  <2> SUFFICES ASSUME SharedIInv, [SharedNext]_<<part, vars, large_vars>>,
                      NEW b \in blocks, \E obj \in l_held \cap l_held' : obj[1] = b[1]
               PROVE  committed \cap Large!PagesOf(b[1], b[2]) \subseteq committed'
    OBVIOUS
  <2>1. [Large!Next]_Large!vars /\ LargeIInv
    BY BothParts DEF SharedIInv
  <2> QED BY <2>1, Undisturbed
<1> QED BY <1>1, SharedInductive, PTL DEF SharedSpec, HeldUndisturbed, Large!HeldUndisturbed
=============================================================================
