-------------------------- MODULE ThreadPartsProofs --------------------------
(***************************************************************************)
(* The parts of a thread_allocator, proved for all size classes and any    *)
(* number of objects: stacks of offsets and lists that run through the     *)
(* objects themselves implement the sets of free objects, objects never    *)
(* overlap, and no node of the remote_cache is in two lists.               *)
(***************************************************************************)
EXTENDS ThreadParts, SizeclassProofs

-----------------------------------------------------------------------------
(* The tables of the slabs are those of Sizeclass, and they count with the *)
(* operators of the library.                                               *)
LEMMA MediumTables ==
  /\ Medium!sizeclass_to_size = sizeclass_to_size
  /\ Medium!medium_slab_slots = medium_slab_slots
  /\ Medium!MediumClasses = MediumClasses
  /\ Medium!PageSize = PageSize
  /\ Medium!LargeThreshold = LargeThreshold
  /\ Medium!CountersFit = CountersFit
<1>1. /\ Medium!PageSize = PageSize /\ Medium!LargeThreshold = LargeThreshold
      /\ Medium!MediumThreshold = MediumThreshold /\ Medium!FieldBits = FieldBits
      /\ Medium!CountersFit = CountersFit
  BY DEF Medium!PageSize, PageSize, Medium!LargeThreshold, LargeThreshold, Medium!MediumThreshold,
         MediumThreshold, Medium!one_at_bit, one_at_bit, Medium!FieldBits, FieldBits,
         Medium!CountersFit, CountersFit
<1>2. \A size : Medium!size_to_sizeclass(size) = size_to_sizeclass(size)
  BY <1>1 DEF Medium!size_to_sizeclass, size_to_sizeclass, Medium!to_exp_mant, to_exp_mant,
              Medium!Uint8, Uint8, Medium!SizeT, SizeT, Medium!countl_zero, countl_zero,
              Medium!Max, Max
<1>3. \A c : Medium!from_exp_mant(c) = from_exp_mant(c)
  BY <1>1 DEF Medium!from_exp_mant, from_exp_mant
<1>4. Medium!SmallClasses = SmallClasses /\ Medium!MediumClasses = MediumClasses
  BY <1>1, <1>2 DEF Medium!SmallClasses, SmallClasses, Medium!MediumClasses, MediumClasses,
                    Medium!NumSizeclasses, NumSizeclasses
<1>5. Medium!sizeclass_to_size = sizeclass_to_size
  BY <1>3, <1>4 DEF Medium!sizeclass_to_size, sizeclass_to_size
<1>6. Medium!medium_slab_slots = medium_slab_slots
  BY <1>1, <1>4, <1>5 DEF Medium!medium_slab_slots, medium_slab_slots, Medium!Uint8, Uint8
<1> QED BY <1>1, <1>4, <1>5, <1>6

(* The same for the small slab.                                            *)
LEMMA SmallTables ==
  /\ Small!sizeclass_to_size = sizeclass_to_size
  /\ Small!small_slab_slots = small_slab_slots
  /\ Small!SmallClasses = SmallClasses
  /\ Small!MediumThreshold = MediumThreshold
  /\ Small!LargeThreshold = LargeThreshold
  /\ Small!CountersFit = CountersFit
<1>1. /\ Small!LargeThreshold = LargeThreshold
      /\ Small!MediumThreshold = MediumThreshold /\ Small!FieldBits = FieldBits
      /\ Small!CountersFit = CountersFit
  BY DEF Small!LargeThreshold, LargeThreshold, Small!MediumThreshold,
         MediumThreshold, Small!one_at_bit, one_at_bit, Small!FieldBits, FieldBits,
         Small!CountersFit, CountersFit
<1>2. \A size : Small!size_to_sizeclass(size) = size_to_sizeclass(size)
  BY <1>1 DEF Small!size_to_sizeclass, size_to_sizeclass, Small!to_exp_mant, to_exp_mant,
              Small!Uint8, Uint8, Small!SizeT, SizeT, Small!countl_zero, countl_zero,
              Small!Max, Max
<1>3. \A c : Small!from_exp_mant(c) = from_exp_mant(c)
  BY <1>1 DEF Small!from_exp_mant, from_exp_mant
<1>4. Small!SmallClasses = SmallClasses /\ Small!MediumClasses = MediumClasses
  BY <1>1, <1>2 DEF Small!SmallClasses, SmallClasses, Small!MediumClasses, MediumClasses,
                    Small!NumSizeclasses, NumSizeclasses
<1>5. Small!sizeclass_to_size = sizeclass_to_size
  BY <1>3, <1>4 DEF Small!sizeclass_to_size, sizeclass_to_size
<1>6. Small!small_slab_slots = small_slab_slots
  BY <1>1, <1>4, <1>5 DEF Small!small_slab_slots, small_slab_slots, Small!Uint16, Uint16
<1> QED BY <1>1, <1>4, <1>5, <1>6

(* All of them count with the operators of the library.                    *)
LEMMA PartsCount ==
  \A S : /\ Medium!Cardinality(S) = Cardinality(S) /\ Medium!Max(S) = Max(S)
         /\ Small!Cardinality(S) = Cardinality(S) /\ Small!Max(S) = Max(S)
         /\ Remote!Cardinality(S) = Cardinality(S) /\ Remote!IsFiniteSet(S) = IsFiniteSet(S)
BY DEF Medium!Cardinality, Small!Cardinality, Remote!Cardinality, Cardinality,
       Remote!IsFiniteSet, IsFiniteSet, Medium!Max, Small!Max, Max

-----------------------------------------------------------------------------
(* Where a medium slab has its objects.                                    *)
MediumObjects(sc) ==
  {LargeThreshold - m * sizeclass_to_size[sc] : m \in 1 .. medium_slab_slots[sc]}

(* In pages: the chunk has l, an object k, and the header has one that no  *)
(* object reaches.                                                         *)
LEMMA MediumLayout ==
  ASSUME NEW sc \in MediumInUse
  PROVE  \E p, k, l \in Nat \ {0} :
           /\ PageSize = p /\ sizeclass_to_size[sc] = k * p /\ LargeThreshold = l * p
           /\ medium_slab_slots[sc] \in 1 .. 255 /\ medium_slab_slots[sc] * k + 1 <= l
<1>1. CountersFit /\ sc \in MediumClasses
  BY PartsConstants, MediumTables DEF Medium!MediumSlabConstants
<1>2. PICK n \in 1 .. 255 : /\ n = medium_slab_slots[sc]
                            /\ n * sizeclass_to_size[sc] <= LargeThreshold - PageSize
  BY <1>1, MediumSlots
<1>3. PICK p \in Nat \ {0} : p = PageSize
  BY Widths, Pow2Pos DEF PageSize, one_at_bit
<1>4. PICK s \in Nat \ {0} : s = sizeclass_to_size[sc] /\ s % p = 0
  <2>1. sc \in SlabClasses
    BY <1>1 DEF SlabClasses, sizeclass_to_size
  <2>2. PICK s \in Nat, a \in Nat : s = sizeclass_to_size[sc] /\ a > 0 /\ a <= s
    <3>1. /\ sizeclass_to_size[sc] \in Nat
          /\ MinAllocSize \in Nat \ {0} /\ MinAllocSize <= sizeclass_to_size[sc]
      BY <1>1, <2>1, SlabSizes
    <3> QED BY <3>1
  <2>3. s \in Nat \ {0}
    BY <2>2
  <2> QED BY <1>1, <1>3, <2>2, <2>3, WholePages
<1>5. PICK t \in Nat : t = LargeThreshold /\ t % p = 0
  <2>1. /\ PageBits \in Nat /\ LargeThresholdBits \in Nat /\ PageBits <= LargeThresholdBits
        /\ 2 ^ LargeThresholdBits \in Nat
    BY Widths, Pow2Pos
  <2>2. (1 * 2 ^ LargeThresholdBits) % 2 ^ PageBits = 0
    BY <2>1, PowDivides
  <2>3. 1 * 2 ^ LargeThresholdBits = 2 ^ LargeThresholdBits
    BY <2>1
  <2> QED BY <2>1, <2>2, <2>3, <1>3 DEF LargeThreshold, PageSize, one_at_bit
<1>6. PICK k \in Nat : k = s \div p /\ s = k * p
  <2>1. /\ s \div p \in Nat /\ s % p \in Nat /\ s = (s \div p) * p + (s % p)
    <3>1. s \in Nat /\ p \in Nat /\ p > 0
      BY <1>3, <1>4
    <3> QED BY <3>1, QuotRem
  <2>2. (s \div p) * p \in Nat
    BY <2>1, <1>3
  <2> QED BY <2>1, <2>2, <1>4
<1>7. PICK l \in Nat : l = t \div p /\ t = l * p
  <2>1. /\ t \div p \in Nat /\ t % p \in Nat /\ t = (t \div p) * p + (t % p)
    BY <1>3, <1>5, QuotRem
  <2>2. (t \div p) * p \in Nat
    BY <2>1, <1>3
  <2> QED BY <2>1, <2>2, <1>5
<1>8. PICK u \in Nat : u = n * k
  BY <1>2
<1>9. n * s = u * p
  <2>1. n * (k * p) = (n * k) * p
    BY <1>2, <1>3, <1>6
  <2> QED BY <2>1, <1>6, <1>8
<1>10. u * p + p <= l * p
  BY <1>2, <1>3, <1>4, <1>5, <1>7, <1>9
<1>11. u + 1 <= l
  <2>1. ASSUME l <= u PROVE FALSE
    <3>1. PICK d \in Nat : u = l + d
      BY <2>1
    <3>2. (l + d) * p = l * p + d * p /\ d * p \in Nat /\ l * p \in Nat
      BY <1>3
    <3> QED BY <3>1, <3>2, <1>3, <1>10
  <2> QED BY <2>1
<1>12. k # 0 /\ l # 0
  <2>1. k # 0
    BY <1>3, <1>4, <1>6
  <2> QED BY <2>1, <1>11
<1> QED BY <1>2, <1>3, <1>4, <1>5, <1>6, <1>7, <1>8, <1>11, <1>12

(* They are in the chunk.                                                  *)
LEMMA MediumInRange ==
  ASSUME NEW sc \in MediumInUse
  PROVE  \A o \in MediumObjects(sc) : o \in 0 .. LargeThreshold - 1
<1>1. PICK p, k, l \in Nat \ {0} :
        /\ PageSize = p /\ sizeclass_to_size[sc] = k * p /\ LargeThreshold = l * p
        /\ medium_slab_slots[sc] \in 1 .. 255 /\ medium_slab_slots[sc] * k + 1 <= l
  BY MediumLayout
<1>2. PICK n \in Nat : n = medium_slab_slots[sc]
  <2>1. 1 .. 255 \subseteq Nat
    OBVIOUS
  <2> QED BY <1>1, <2>1
<1>3. PICK s, t \in Nat : s = sizeclass_to_size[sc] /\ s > 0 /\ t = LargeThreshold /\ n * s <= t
  <2>1. k * p \in Nat /\ k * p > 0 /\ l * p \in Nat
    OBVIOUS
  <2>2. PICK u \in Nat, d \in Nat : u = n * k /\ l = u + d
    <3>1. n * k \in Nat /\ l - n * k \in Nat /\ l = n * k + (l - n * k)
      BY <1>1, <1>2
    <3> QED BY <3>1
  <2>3. l * p = n * (k * p) + d * p /\ d * p \in Nat /\ n * (k * p) \in Nat
    <3>1. u * p = n * (k * p)
      BY <1>2, <2>2
    <3>2. (u + d) * p = u * p + d * p
      OBVIOUS
    <3> QED BY <1>2, <2>1, <2>2, <3>1, <3>2
  <2> QED BY <1>1, <2>1, <2>3
<1> SUFFICES ASSUME NEW m \in 1 .. n PROVE t - m * s \in 0 .. t - 1
  BY <1>2, <1>3 DEF MediumObjects
<1>4. PICK d \in Nat, e \in Nat : m = d + 1 /\ n = m + e
  <2>1. m - 1 \in Nat /\ n - m \in Nat /\ m = (m - 1) + 1 /\ n = m + (n - m)
    BY <1>2
  <2> QED BY <2>1
<1>5. m * s = d * s + s /\ n * s = m * s + e * s /\ d * s \in Nat /\ e * s \in Nat
  BY <1>2, <1>3, <1>4
<1> QED BY <1>3, <1>5

(* So an object has whole pages, which it shares with none.                *)
LEMMA MediumPages ==
  ASSUME NEW sc \in MediumInUse, sizeclass = sc
  PROVE  /\ \A o \in MediumObjects(sc) :
              /\ o \in 0 .. LargeThreshold - 1
              /\ Medium!PagesOf(o) \subseteq Medium!Chunk \ {Medium!Header}
         /\ \A o, other \in MediumObjects(sc) :
              o # other => Medium!PagesOf(o) \cap Medium!PagesOf(other) = {}
<1>1. PICK p, k, l \in Nat \ {0} :
        /\ PageSize = p /\ sizeclass_to_size[sc] = k * p /\ LargeThreshold = l * p
        /\ medium_slab_slots[sc] \in 1 .. 255 /\ medium_slab_slots[sc] * k + 1 <= l
  BY MediumLayout
<1>2. PICK n \in 1 .. 255 : n = medium_slab_slots[sc]
  BY <1>1
<1>3. p \in Nat /\ p > 0 /\ k \in Nat /\ k > 0 /\ l \in Nat /\ l > 0
  OBVIOUS
<1>4. ASSUME NEW m \in 1 .. n
      PROVE  /\ m * k \in Nat /\ k <= m * k /\ m * k + 1 <= l
             /\ LargeThreshold - m * sizeclass_to_size[sc] = (l - m * k) * p
             /\ Medium!PagesOf(LargeThreshold - m * sizeclass_to_size[sc])
                  = l - m * k .. l - m * k + k - 1
  <2>1. PICK d \in Nat, e \in Nat : m = d + 1 /\ n = m + e
    <3>1. m - 1 \in Nat /\ n - m \in Nat /\ m = (m - 1) + 1 /\ n = m + (n - m)
      BY <1>2
    <3> QED BY <3>1
  <2>2. PICK u \in Nat : u = m * k
    BY <1>3
  <2>3. u = d * k + k /\ d * k \in Nat /\ n * k = u + e * k /\ e * k \in Nat
    BY <1>3, <2>1, <2>2
  <2>4. k <= u /\ u + 1 <= l
    BY <1>1, <1>2, <1>3, <2>2, <2>3
  <2>5. PICK a \in Nat : a = l - u
    BY <2>2, <2>4
  <2>6. LargeThreshold - m * sizeclass_to_size[sc] = a * p
    <3>1. m * (k * p) = u * p
      BY <1>3, <2>2
    <3>2. l * p - u * p = a * p
      <4>1. l = a + u
        BY <2>5, <2>2
      <4>2. l * p = a * p + u * p
        BY <1>3, <2>2, <2>5, <4>1
      <4> QED BY <1>3, <2>2, <2>5, <4>2
    <3> QED BY <1>1, <3>1, <3>2
  <2>7. (a * p) \div p = a /\ (a * p + k * p - 1) \div p = a + k - 1
    <3>1. (a * p + 0) % p = 0 /\ (a * p + 0) \div p = a
      BY <1>3, <2>5, RemOfSum
    <3>2. a * p + 0 = a * p
      BY <1>3, <2>5
    <3>3. PICK b \in Nat : b = a + k - 1
      BY <1>3, <2>5
    <3>4. ((b * p) + (p - 1)) \div p = b
      <4>1. p - 1 \in Nat /\ p - 1 < p
        BY <1>3
      <4> QED BY <1>3, <3>3, <4>1, RemOfSum
    <3>5. a * p + k * p = b * p + p
      <4>1. a + k = b + 1
        BY <1>3, <2>5, <3>3
      <4>2. (a + k) * p = (b + 1) * p
        BY <4>1
      <4>3. (a + k) * p = a * p + k * p /\ (b + 1) * p = b * p + p
        BY <1>3, <2>5, <3>3
      <4> QED BY <4>2, <4>3
    <3>6. a * p + k * p - 1 = (b * p) + (p - 1)
      BY <1>3, <2>5, <3>3, <3>5
    <3> QED BY <3>1, <3>2, <3>3, <3>4, <3>6
  <2>8. Medium!PagesOf(a * p) = a .. a + k - 1
    BY <1>1, <2>7, MediumTables DEF Medium!PagesOf
  <2> QED BY <2>2, <2>4, <2>5, <2>6, <2>8
<1>5. Medium!Chunk = 0 .. l - 1 /\ Medium!Header = 0
  <2>1. (l * p + 0) % p = 0 /\ (l * p + 0) \div p = l
    BY <1>3, RemOfSum
  <2>2. l * p + 0 = l * p
    BY <1>3
  <2> QED BY <1>1, <2>1, <2>2, MediumTables DEF Medium!Chunk, Medium!Header
<1>6. ASSUME NEW o \in MediumObjects(sc)
      PROVE  /\ o \in 0 .. LargeThreshold - 1
             /\ Medium!PagesOf(o) \subseteq Medium!Chunk \ {Medium!Header}
  <2>1. PICK m \in 1 .. n : o = LargeThreshold - m * sizeclass_to_size[sc]
    BY <1>2 DEF MediumObjects
  <2>2. PICK u \in Nat : /\ u = m * k /\ k <= u /\ u + 1 <= l /\ o = (l - u) * p
                         /\ Medium!PagesOf(o) = l - u .. l - u + k - 1
    BY <1>4, <2>1
  <2>3. l - u .. l - u + k - 1 \subseteq (0 .. l - 1) \ {0}
    BY <1>3, <2>2
  <2>4. o \in 0 .. LargeThreshold - 1
    <3>1. PICK a \in Nat : a = l - u /\ o = a * p /\ l = a + u /\ u > 0
      BY <1>3, <2>2
    <3>2. a < l /\ a \in Int
      BY <3>1
    <3>3. a * p + p <= l * p
      BY <1>3, <3>2, MultMono
    <3>4. a * p \in Nat /\ l * p \in Nat
      BY <1>3, <3>1
    <3> QED BY <1>1, <1>3, <3>1, <3>3, <3>4
  <2> QED BY <1>5, <2>2, <2>3, <2>4
<1>7. ASSUME NEW o \in MediumObjects(sc), NEW other \in MediumObjects(sc), o # other
      PROVE  Medium!PagesOf(o) \cap Medium!PagesOf(other) = {}
  <2>1. PICK i \in 1 .. n : o = LargeThreshold - i * sizeclass_to_size[sc]
    BY <1>2 DEF MediumObjects
  <2>2. PICK j \in 1 .. n : other = LargeThreshold - j * sizeclass_to_size[sc]
    BY <1>2 DEF MediumObjects
  <2>3. i # j
    BY <1>7, <2>1, <2>2
  <2>4. PICK u \in Nat : u = i * k /\ Medium!PagesOf(o) = l - u .. l - u + k - 1
    BY <1>4, <2>1
  <2>5. PICK v \in Nat : v = j * k /\ Medium!PagesOf(other) = l - v .. l - v + k - 1
    BY <1>4, <2>2
  <2>6. u + k <= v \/ v + k <= u
    <3>1. i \in Int /\ j \in Int /\ (i < j \/ j < i)
      BY <1>2, <2>3
    <3> QED BY <1>3, <2>4, <2>5, <3>1, MultMono
  <2> QED BY <1>3, <2>4, <2>5, <2>6
<1> QED BY <1>6, <1>7

(* A slab of class sc has as many objects as slots.                        *)
LEMMA MediumCount ==
  ASSUME NEW sc \in MediumInUse
  PROVE  /\ IsFiniteSet(MediumObjects(sc))
         /\ Cardinality(MediumObjects(sc)) = medium_slab_slots[sc]
<1>1. PICK p, k, l \in Nat \ {0} :
        /\ PageSize = p /\ sizeclass_to_size[sc] = k * p /\ LargeThreshold = l * p
        /\ medium_slab_slots[sc] \in 1 .. 255 /\ medium_slab_slots[sc] * k + 1 <= l
  BY MediumLayout
<1>2. PICK n \in 1 .. 255 : n = medium_slab_slots[sc]
  BY <1>1
<1>3. PICK s \in Nat : s = sizeclass_to_size[sc] /\ s > 0
  <2>1. k * p \in Nat /\ k * p > 0
    OBVIOUS
  <2> QED BY <1>1, <2>1
<1>4. PICK t \in Nat : t = LargeThreshold
  BY <1>1
<1> DEFINE f == [m \in 1 .. n |-> t - m * s]
<1>5. \A x, y \in 1 .. n : f[x] = f[y] => x = y
  <2> SUFFICES ASSUME NEW x \in 1 .. n, NEW y \in 1 .. n, x # y PROVE f[x] # f[y]
    OBVIOUS
  <2>1. x \in Int /\ y \in Int /\ (x < y \/ y < x)
    OBVIOUS
  <2>2. x * s + s <= y * s \/ y * s + s <= x * s
    BY <1>3, <2>1, MultMono
  <2>3. x * s \in Int /\ y * s \in Int
    BY <1>3, <2>1
  <2>4. t - x * s # t - y * s
    BY <1>3, <1>4, <2>2, <2>3
  <2> QED BY <2>4
<1>6. IsFiniteSet(1 .. n) /\ Cardinality(1 .. n) = n
  <2>1. 1 \in Int /\ n \in Int /\ ~(1 > n) /\ n - 1 + 1 = n
    BY <1>2
  <2> QED BY <2>1, FS_Interval
<1>7. MediumObjects(sc) = {f[m] : m \in 1 .. n}
  BY <1>2, <1>3, <1>4 DEF MediumObjects
<1> HIDE DEF f
<1> DEFINE S == 1 .. n
<1>8. IsFiniteSet(S) /\ Cardinality(S) = n /\ \A x, y \in S : f[x] = f[y] => x = y
  BY <1>5, <1>6
<1> HIDE DEF S
<1>9. IsFiniteSet({f[m] : m \in S}) /\ Cardinality({f[m] : m \in S}) = n
  BY <1>8, CountOfImage
<1> QED BY <1>2, <1>7, <1>9 DEF S

(* The stack has room for the slots of every class that is used.           *)
LEMMA MediumCapacity ==
  ASSUME NEW sc \in MediumInUse
  PROVE  Medium!Capacity \in Nat /\ medium_slab_slots[sc] <= Medium!Capacity
<1> DEFINE S == {medium_slab_slots[c] : c \in MediumInUse}
<1>1. S \subseteq 1 .. 255
  BY MediumLayout
<1>2. IsFiniteSet(1 .. 255)
  <2>1. 1 \in Int /\ 255 \in Int
    OBVIOUS
  <2> QED BY <2>1, FS_Interval
<1>3. medium_slab_slots[sc] \in S
  OBVIOUS
<1>4. Medium!Capacity = Max(S)
  BY MediumTables, PartsCount DEF Medium!Capacity
<1> HIDE DEF S
<1>5. S \in SUBSET Nat /\ S # {} /\ IsFiniteSet(S)
  <2>1. IsFiniteSet(S)
    BY <1>1, <1>2, FS_Subset
  <2>2. 1 .. 255 \subseteq Nat
    OBVIOUS
  <2> QED BY <1>1, <1>3, <2>1, <2>2
<1>6. Max(S) \in S /\ \A m \in S : m <= Max(S)
  BY <1>5, MaxGreatest
<1> QED BY <1>3, <1>4, <1>5, <1>6

-----------------------------------------------------------------------------
(* The places of the stack from top on have the free objects, each once;   *)
(* all others are held, as many as there are places below top.             *)
MediumTypes ==
  /\ sizeclass \in MediumInUse /\ slots = medium_slab_slots[sizeclass]
  /\ top \in 0 .. slots
  /\ stack = [i \in 0 .. Medium!Capacity - 1 |-> stack[i]]

MediumStack ==
  /\ \A i \in top .. slots - 1 : stack[i] \in MediumObjects(sizeclass) \ held
  /\ \A i, j \in top .. slots - 1 : stack[i] = stack[j] => i = j

MediumHeld ==
  /\ held \subseteq MediumObjects(sizeclass)
  /\ MediumObjects(sizeclass) \subseteq held \cup Medium!free
  /\ IsFiniteSet(held) /\ Cardinality(held) = top

MediumIInv == MediumTypes /\ MediumStack /\ MediumHeld /\ (listed <=> top # slots)

(* What init writes into the stack.                                        *)
LEMMA MediumCut ==
  ASSUME NEW sc \in MediumInUse, NEW old, DOMAIN old = 0 .. Medium!Capacity - 1,
         NEW n, n = medium_slab_slots[sc], NEW new, new = Medium!InitialStack(old, sc)
  PROVE  /\ n \in Nat \ {0}
         /\ new = [i \in 0 .. Medium!Capacity - 1 |-> new[i]]
         /\ \A i \in 0 .. n - 1 : new[i] \in MediumObjects(sc)
         /\ \A i, j \in 0 .. n - 1 : new[i] = new[j] => i = j
         /\ MediumObjects(sc) \subseteq {new[i] : i \in 0 .. n - 1}
<1>1. PICK s, t \in Nat : s > 0 /\ s = sizeclass_to_size[sc] /\ t = LargeThreshold
  <2>1. PICK p, k, l \in Nat \ {0} : sizeclass_to_size[sc] = k * p /\ LargeThreshold = l * p
    BY MediumLayout
  <2>2. k * p \in Nat /\ k * p > 0 /\ l * p \in Nat
    OBVIOUS
  <2> QED BY <2>1, <2>2
<1>2. n \in 1 .. 255 /\ Medium!Capacity \in Nat /\ n <= Medium!Capacity
  BY MediumLayout, MediumCapacity
<1>3. new = [i \in 0 .. Medium!Capacity - 1 |-> IF i < n THEN t - (n - i) * s ELSE old[i]]
  BY <1>1, MediumTables DEF Medium!InitialStack
<1>4. \A i \in 0 .. n - 1 : new[i] = t - (n - i) * s
  BY <1>2, <1>3
<1>5. \A i \in 0 .. n - 1 : new[i] \in MediumObjects(sc)
  <2> TAKE i \in 0 .. n - 1
  <2>1. n - i \in 1 .. n
    BY <1>2
  <2> QED BY <1>1, <1>4, <2>1 DEF MediumObjects
<1>6. ASSUME NEW i \in 0 .. n - 1, NEW j \in 0 .. n - 1, i # j PROVE new[i] # new[j]
  <2>1. PICK a, b \in Int : a = n - i /\ b = n - j /\ (a < b \/ b < a)
    <3>1. n - i \in Int /\ n - j \in Int /\ (n - i < n - j \/ n - j < n - i)
      BY <1>2, <1>6
    <3> QED BY <3>1
  <2>2. a * s + s <= b * s \/ b * s + s <= a * s
    BY <1>1, <2>1, MultMono
  <2>3. PICK x, y \in Int : x = a * s /\ y = b * s
    <3>1. s \in Int
      BY <1>1
    <3>2. a * s \in Int /\ b * s \in Int
      BY <3>1
    <3> QED BY <3>2, Zenon
  <2>4. new[i] = t - x /\ new[j] = t - y
    BY <1>4, <2>1, <2>3
  <2>5. x # y
    BY <1>1, <2>2, <2>3
  <2>6. t - x # t - y
    BY <2>5
  <2> QED BY <2>4, <2>6
<1>7. ASSUME NEW o \in MediumObjects(sc) PROVE o \in {new[i] : i \in 0 .. n - 1}
  <2>1. PICK m \in 1 .. n : o = t - m * s
    BY <1>1 DEF MediumObjects
  <2>2. PICK i \in 0 .. n - 1 : n - i = m
    <3>1. n - m \in 0 .. n - 1 /\ n - (n - m) = m
      BY <1>2
    <3> QED BY <3>1
  <2> QED BY <1>4, <2>1, <2>2
<1>8. new = [i \in 0 .. Medium!Capacity - 1 |-> new[i]]
  BY <1>3
<1>9. n \in Nat \ {0}
  <2>1. \A m \in 1 .. 255 : m \in Nat \ {0}
    OBVIOUS
  <2> QED BY <1>2, <2>1
<1> QED BY <1>5, <1>6, <1>7, <1>8, <1>9

(* A slab that has just been cut, or cut again.                            *)
LEMMA MediumInitially ==
  ASSUME Medium!Init
  PROVE  MediumIInv
<1>1. PICK sc \in MediumInUse :
        /\ stack = Medium!InitialStack(Medium!Unset, sc)
        /\ top = 0 /\ slots = medium_slab_slots[sc] /\ sizeclass = sc
        /\ held = {} /\ listed = TRUE
  BY MediumTables DEF Medium!Init
<1>2. DOMAIN Medium!Unset = 0 .. Medium!Capacity - 1
  BY DEF Medium!Unset
<1>3. /\ slots \in Nat \ {0}
      /\ stack = [i \in 0 .. Medium!Capacity - 1 |-> stack[i]]
      /\ \A i \in 0 .. slots - 1 : stack[i] \in MediumObjects(sc)
      /\ \A i, j \in 0 .. slots - 1 : stack[i] = stack[j] => i = j
      /\ MediumObjects(sc) \subseteq {stack[i] : i \in 0 .. slots - 1}
  BY <1>1, <1>2, MediumCut
<1>4. IsFiniteSet({}) /\ Cardinality({}) = 0
  BY FS_EmptySet
<1>5. MediumTypes
  BY <1>1, <1>3 DEF MediumTypes
<1>6. MediumStack /\ MediumHeld
  BY <1>1, <1>3, <1>4 DEF MediumStack, MediumHeld, Medium!free
<1> QED BY <1>1, <1>3, <1>5, <1>6 DEF MediumIInv
(* Each operation finds the objects where the invariant has them.          *)
LEMMA MediumAllocates ==
  ASSUME MediumIInv, Medium!allocate
  PROVE  /\ MediumIInv'
         /\ \E o \in Medium!free : Medium!free' = Medium!free \ {o} /\ held' = held \cup {o}
<1>1. PICK n \in Nat : n = slots /\ n <= Medium!Capacity
  <2>1. slots \in 1 .. 255 /\ slots <= Medium!Capacity
    BY MediumLayout, MediumCapacity DEF MediumIInv, MediumTypes
  <2>2. 1 .. 255 \subseteq Nat
    OBVIOUS
  <2> QED BY <2>1, <2>2
<1>2. PICK t \in 0 .. n - 1 : t = top
  BY <1>1 DEF MediumIInv, MediumTypes, Medium!allocate, Medium!empty
<1>3. PICK o \in MediumObjects(sizeclass) : o = stack[t] /\ o \notin held
  <2>1. t \in top .. slots - 1
    BY <1>1, <1>2
  <2> QED BY <2>1 DEF MediumIInv, MediumStack
<1>4. /\ held' = held \cup {o} /\ top' = t + 1 /\ stack' = stack
      /\ slots' = n /\ sizeclass' = sizeclass /\ (listed' <=> t + 1 # n)
  BY <1>1, <1>2, <1>3 DEF Medium!allocate
<1>5. Medium!free = {stack[i] : i \in t .. n - 1} /\ Medium!free' = {stack[i] : i \in t + 1 .. n - 1}
  BY <1>1, <1>2, <1>4 DEF Medium!free
<1>6. \A i, j \in t .. n - 1 : stack[i] = stack[j] => i = j
  BY <1>1, <1>2 DEF MediumIInv, MediumStack
<1>7. o \in Medium!free /\ Medium!free' = Medium!free \ {o}
  <2>1. t \in t .. n - 1 /\ t .. n - 1 = {t} \cup (t + 1 .. n - 1) /\ t \notin t + 1 .. n - 1
    BY <1>1, <1>2
  <2> QED BY <1>3, <1>5, <1>6, <2>1
<1>8. MediumObjects(sizeclass)' = MediumObjects(sizeclass) /\ Medium!Capacity' = Medium!Capacity
  BY <1>4 DEF MediumObjects, Medium!Capacity
<1>9. MediumTypes'
  BY <1>1, <1>2, <1>4, <1>8 DEF MediumIInv, MediumTypes
<1>10. MediumStack'
  <2>1. ASSUME NEW i \in t + 1 .. n - 1 PROVE stack[i] \in MediumObjects(sizeclass) \ (held \cup {o})
    <3>1. i \in t .. n - 1 /\ t \in t .. n - 1 /\ i # t
      BY <1>1, <1>2
    <3> QED BY <1>1, <1>2, <1>3, <1>6, <3>1 DEF MediumIInv, MediumStack
  <2>2. t + 1 .. n - 1 \subseteq t .. n - 1
    BY <1>1, <1>2
  <2> QED BY <1>1, <1>2, <1>4, <1>6, <1>8, <2>1, <2>2 DEF MediumStack
<1>11. MediumHeld'
  <2>1. IsFiniteSet(held) /\ Cardinality(held) = t /\ held \subseteq MediumObjects(sizeclass)
        /\ MediumObjects(sizeclass) \subseteq held \cup Medium!free
    BY <1>2 DEF MediumIInv, MediumHeld
  <2>2. IsFiniteSet(held \cup {o}) /\ Cardinality(held \cup {o}) = t + 1
    BY <1>3, <2>1, FS_AddElement
  <2>3. MediumObjects(sizeclass) \subseteq held' \cup Medium!free'
    BY <1>4, <1>7, <2>1
  <2> QED BY <1>3, <1>4, <1>8, <2>1, <2>2, <2>3 DEF MediumHeld
<1>12. (listed <=> top # slots)'
  BY <1>4
<1> QED BY <1>3, <1>4, <1>7, <1>9, <1>10, <1>11, <1>12 DEF MediumIInv

(* A free has a place on the stack to go to.                               *)
LEMMA MediumDeallocates ==
  ASSUME MediumIInv, NEW o \in held, Medium!deallocate(o)
  PROVE  MediumIInv' /\ Medium!free' = Medium!free \cup {o} /\ held' = held \ {o}
<1>1. PICK n \in Nat : n = slots /\ n <= Medium!Capacity /\ Medium!Capacity \in Nat
  <2>1. slots \in 1 .. 255 /\ slots <= Medium!Capacity /\ Medium!Capacity \in Nat
    BY MediumLayout, MediumCapacity DEF MediumIInv, MediumTypes
  <2>2. 1 .. 255 \subseteq Nat
    OBVIOUS
  <2> QED BY <2>1, <2>2
<1>2. /\ IsFiniteSet(held) /\ Cardinality(held) = top /\ held \subseteq MediumObjects(sizeclass)
      /\ MediumObjects(sizeclass) \subseteq held \cup Medium!free
  BY DEF MediumIInv, MediumHeld
<1>3. PICK t \in 1 .. n : t = top
  <2>1. top # 0
    BY <1>2, FS_EmptySet
  <2> QED BY <1>1, <2>1 DEF MediumIInv, MediumTypes
<1>4. /\ held' = held \ {o} /\ top' = t - 1 /\ stack' = [stack EXCEPT ![t - 1] = o]
      /\ slots' = n /\ sizeclass' = sizeclass /\ (listed' <=> listed \/ t = n)
  BY <1>1, <1>3 DEF Medium!deallocate, Medium!empty
<1>5. /\ stack' = [i \in 0 .. Medium!Capacity - 1 |-> stack'[i]]
      /\ stack'[t - 1] = o /\ \A i \in t .. n - 1 : stack'[i] = stack[i]
  <2>1. stack = [i \in 0 .. Medium!Capacity - 1 |-> stack[i]]
    BY DEF MediumIInv, MediumTypes
  <2>2. t - 1 \in 0 .. Medium!Capacity - 1 /\ t .. n - 1 \subseteq 0 .. Medium!Capacity - 1
        /\ t - 1 \notin t .. n - 1
    BY <1>1, <1>3
  <2> QED BY <1>4, <2>1, <2>2
<1>6. t - 1 .. n - 1 = {t - 1} \cup (t .. n - 1)
  BY <1>1, <1>3
<1>7. Medium!free = {stack[i] : i \in t .. n - 1} /\ Medium!free' = {stack'[i] : i \in t - 1 .. n - 1}
  BY <1>1, <1>3, <1>4 DEF Medium!free
<1>8. Medium!free' = Medium!free \cup {o}
  BY <1>5, <1>6, <1>7
<1>9. MediumObjects(sizeclass)' = MediumObjects(sizeclass) /\ Medium!Capacity' = Medium!Capacity
  BY <1>4 DEF MediumObjects, Medium!Capacity
<1>10. MediumTypes'
  BY <1>1, <1>3, <1>4, <1>5, <1>9 DEF MediumIInv, MediumTypes
<1>11. MediumStack'
  <2>1. /\ \A i \in t .. n - 1 : stack[i] \in MediumObjects(sizeclass) \ held
        /\ \A i, j \in t .. n - 1 : stack[i] = stack[j] => i = j
    BY <1>1, <1>3 DEF MediumIInv, MediumStack
  <2>2. \A i \in t - 1 .. n - 1 : stack'[i] \in MediumObjects(sizeclass) \ (held \ {o})
    BY <1>2, <1>5, <1>6, <2>1
  <2>3. \A i, j \in t - 1 .. n - 1 : stack'[i] = stack'[j] => i = j
    BY <1>5, <1>6, <2>1
  <2>4. top' = t - 1 /\ slots' - 1 = n - 1
    BY <1>4
  <2> QED BY <1>4, <1>9, <2>2, <2>3, <2>4 DEF MediumStack
<1>12. MediumHeld'
  <2>1. IsFiniteSet(held \ {o}) /\ Cardinality(held \ {o}) = t - 1
    BY <1>2, <1>3, FS_RemoveElement
  <2>2. MediumObjects(sizeclass) \subseteq held' \cup Medium!free'
    BY <1>2, <1>4, <1>8
  <2> QED BY <1>2, <1>4, <1>9, <2>1, <2>2 DEF MediumHeld
<1>13. (listed <=> top # slots)'
  <2>1. listed <=> t # n
    BY <1>1, <1>3 DEF MediumIInv
  <2>2. t - 1 # n
    BY <1>1, <1>3
  <2> QED BY <1>4, <2>1, <2>2
<1> QED BY <1>4, <1>8, <1>10, <1>11, <1>12, <1>13 DEF MediumIInv

(* A slab that is cut again has no object that a caller holds.             *)
LEMMA MediumRecut ==
  ASSUME MediumIInv, NEW sc \in MediumInUse, Medium!InitAgain(sc)
  PROVE  MediumIInv' /\ held = {} /\ held' = {}
<1>1. top = 0 /\ held = {} /\ held' = {} /\ top' = 0
  <2>1. top = 0
    BY DEF Medium!InitAgain, Medium!full
  <2>2. held = {}
    BY <2>1, FS_EmptySet DEF MediumIInv, MediumHeld
  <2> QED BY <2>1, <2>2 DEF Medium!InitAgain
<1>2. DOMAIN stack = 0 .. Medium!Capacity - 1
  BY DEF MediumIInv, MediumTypes
<1>3. /\ slots' = medium_slab_slots[sc] /\ sizeclass' = sc /\ listed' = TRUE
      /\ stack' = Medium!InitialStack(stack, sc)
  BY MediumTables DEF Medium!InitAgain
<1>4. /\ slots' \in Nat \ {0}
      /\ stack' = [i \in 0 .. Medium!Capacity - 1 |-> stack'[i]]
      /\ \A i \in 0 .. slots' - 1 : stack'[i] \in MediumObjects(sc)
      /\ \A i, j \in 0 .. slots' - 1 : stack'[i] = stack'[j] => i = j
      /\ MediumObjects(sc) \subseteq {stack'[i] : i \in 0 .. slots' - 1}
  BY <1>2, <1>3, MediumCut
<1>5. IsFiniteSet({}) /\ Cardinality({}) = 0
  BY FS_EmptySet
<1>6. MediumObjects(sizeclass)' = MediumObjects(sc) /\ Medium!Capacity' = Medium!Capacity
  BY <1>3 DEF MediumObjects, Medium!Capacity
<1>7. MediumTypes'
  BY <1>1, <1>3, <1>4, <1>6 DEF MediumTypes
<1>8. MediumStack' /\ MediumHeld'
  <2>1. Medium!free' = {stack'[i] : i \in 0 .. slots' - 1}
    BY <1>1 DEF Medium!free
  <2> QED BY <1>1, <1>4, <1>5, <1>6, <2>1 DEF MediumStack, MediumHeld
<1> QED BY <1>1, <1>3, <1>4, <1>7, <1>8 DEF MediumIInv

(* What the slab has of the invariant is kept by whatever leaves it alone. *)
LEMMA MediumStill ==
  ASSUME MediumIInv, UNCHANGED Medium!vars
  PROVE  MediumIInv'
<1>1. MediumTypes'
  BY DEF MediumIInv, MediumTypes, Medium!vars, Medium!Capacity
<1>2. MediumStack'
  BY DEF MediumIInv, MediumStack, MediumObjects, Medium!vars
<1>3. MediumHeld'
  BY DEF MediumIInv, MediumHeld, MediumObjects, Medium!vars, Medium!free
<1>4. (listed <=> top # slots)'
  BY DEF MediumIInv, Medium!vars
<1> QED BY <1>1, <1>2, <1>3, <1>4 DEF MediumIInv

(* So the invariant is inductive.                                          *)
LEMMA MediumStep ==
  ASSUME MediumIInv, [Medium!Next]_(Medium!vars)
  PROVE  MediumIInv'
<1>1. CASE UNCHANGED Medium!vars
  BY <1>1, MediumStill
<1>2. CASE \E sc \in MediumInUse : Medium!InitAgain(sc)
  BY <1>2, MediumRecut
<1>3. CASE Medium!allocate
  BY <1>3, MediumAllocates
<1>4. CASE \E offset \in held : Medium!deallocate(offset)
  BY <1>4, MediumDeallocates
<1> QED BY <1>1, <1>2, <1>3, <1>4 DEF Medium!Next
-----------------------------------------------------------------------------
(* What the invariant says of the objects.                                 *)
LEMMA MediumApart ==
  ASSUME MediumIInv
  PROVE  Medium!ObjectsApart /\ Medium!ListedIffAvailable
<1> DEFINE O == MediumObjects(sizeclass)
<1>1. /\ sizeclass \in MediumInUse /\ slots = medium_slab_slots[sizeclass]
      /\ top \in 0 .. slots /\ slots \in Nat
  <2>1. slots \in 1 .. 255
    BY MediumLayout DEF MediumIInv, MediumTypes
  <2>2. slots \in Nat
    <3>1. 1 .. 255 \subseteq Nat
      OBVIOUS
    <3> QED BY <2>1, <3>1
  <2> QED BY <2>2 DEF MediumIInv, MediumTypes
<1>2. IsFiniteSet(O) /\ Cardinality(O) = slots
  BY <1>1, MediumCount
<1>3. held \subseteq O /\ Cardinality(held) = top
  BY DEF MediumIInv, MediumHeld
<1>4. Medium!free = O \ held
  BY DEF MediumIInv, MediumStack, MediumHeld, Medium!free
<1>5. /\ \A o \in O : Medium!PagesOf(o) \subseteq Medium!Chunk \ {Medium!Header}
      /\ \A o, other \in O : o # other => Medium!PagesOf(o) \cap Medium!PagesOf(other) = {}
  BY <1>1, MediumPages
<1> HIDE DEF O
<1>6. IsFiniteSet(O \ held) /\ Cardinality(O \ held) = slots - top
  <2>1. O \cap held = held
    BY <1>3
  <2> QED BY <1>2, <1>3, <2>1, FS_Difference
<1>7. Medium!free \cup held = O
  BY <1>3, <1>4
<1>8. Medium!ObjectsApart
  <2>1. /\ Medium!Cardinality(Medium!free \cup held) = slots
        /\ Medium!Cardinality(Medium!free) = slots - top
    BY <1>2, <1>4, <1>6, <1>7, PartsCount
  <2> QED BY <1>5, <1>7, <2>1 DEF Medium!ObjectsApart
<1>9. Medium!free # {} <=> top # slots
  <2>1. O \ held = {} <=> slots - top = 0
    BY <1>6, FS_EmptySet
  <2> QED BY <1>1, <1>4, <2>1
<1> QED BY <1>8, <1>9 DEF MediumIInv, Medium!ListedIffAvailable

(* A free takes the pages of its own object only.                          *)
LEMMA MediumUndisturbed ==
  ASSUME MediumIInv, [Medium!Next]_(Medium!vars)
  PROVE  LET used == {Medium!Header} \cup UNION {Medium!PagesOf(o) : o \in held \cap held'}
         IN  committed \cap used \subseteq committed'
<1>1. CASE committed' = committed
  BY <1>1
<1>2. CASE \E offset \in held : Medium!deallocate(offset)
  <2>1. PICK offset \in held : Medium!deallocate(offset)
    BY <1>2
  <2>2. held' = held \ {offset} /\ committed' = committed \ Medium!PagesOf(offset)
    BY <2>1 DEF Medium!deallocate
  <2>3. sizeclass \in MediumInUse /\ held \subseteq MediumObjects(sizeclass)
    BY DEF MediumIInv, MediumTypes, MediumHeld
  <2>4. Medium!Header \notin Medium!PagesOf(offset)
    BY <2>3, MediumPages
  <2>5. \A o \in held \ {offset} : Medium!PagesOf(o) \cap Medium!PagesOf(offset) = {}
    BY <2>3, MediumPages
  <2> QED BY <2>2, <2>4, <2>5
<1>3. CASE UNCHANGED Medium!vars \/ Medium!allocate \/ \E sc \in MediumInUse : Medium!InitAgain(sc)
  <2>1. committed' = committed
    BY <1>3 DEF Medium!vars, Medium!allocate, Medium!InitAgain
  <2> QED BY <1>1, <2>1
<1> QED BY <1>2, <1>3 DEF Medium!Next

(* The stack implements the set.                                           *)
LEMMA MediumImplements ==
  ASSUME MediumIInv, [Medium!Next]_(Medium!vars)
  PROVE  [Medium!Abstract!Next]_<<Medium!free, held>>
<1>1. CASE UNCHANGED Medium!vars
  BY <1>1 DEF Medium!vars, Medium!free
<1>2. CASE \E sc \in MediumInUse : Medium!InitAgain(sc)
  <2>1. MediumIInv' /\ held = {} /\ held' = {}
    BY <1>2, MediumRecut
  <2>2. Medium!free' \subseteq 0 .. LargeThreshold - 1
    <3>1. Medium!free' \subseteq MediumObjects(sizeclass)'
      BY <2>1 DEF MediumIInv, MediumStack, Medium!free
    <3>2. MediumObjects(sizeclass)' \subseteq 0 .. LargeThreshold - 1
      <4>1. PICK sc \in MediumInUse : sc = sizeclass'
        BY <2>1 DEF MediumIInv, MediumTypes
      <4>2. \A o \in MediumObjects(sc) : o \in 0 .. LargeThreshold - 1
        BY MediumInRange
      <4>3. MediumObjects(sizeclass)' = MediumObjects(sc)
        BY <4>1 DEF MediumObjects
      <4> QED BY <4>2, <4>3
    <3> QED BY <3>1, <3>2
  <2> QED BY <2>1, <2>2, MediumTables DEF Medium!Abstract!Next, Medium!Abstract!Cut
<1>3. CASE Medium!allocate
  BY <1>3, MediumAllocates DEF Medium!Abstract!Next, Medium!Abstract!Allocate
<1>4. CASE \E offset \in held : Medium!deallocate(offset)
  BY <1>4, MediumDeallocates DEF Medium!Abstract!Next, Medium!Abstract!Deallocate
<1> QED BY <1>1, <1>2, <1>3, <1>4 DEF Medium!Next
-----------------------------------------------------------------------------
(* Where a slab of a small_slab has its objects.                           *)
SmallObjects(i, sc) ==
  {Small!slab_address(i) + m * sizeclass_to_size[sc] : m \in 0 .. small_slab_slots[sc] - 1}

(* The chunk in slabs of M: b of them, the first one for the meta_slabs.   *)
LEMMA SmallLayout ==
  \E p, b \in Nat \ {0} :
    /\ MediumThreshold = p /\ LargeThreshold = b * p /\ b \in 2 .. 256
    /\ Small!NumMeta = b - 1 /\ Small!Addresses = p .. b * p - 1 /\ Small!nullptr = 0
    /\ \A i : Small!slab_address(i) = (i + 1) * p
    /\ \A a : Small!get_meta_slab(a) = Uint8((a % (b * p)) \div p - 1)
<1>1. CountersFit
  BY PartsConstants, SmallTables DEF Small!SmallSlabConstants
<1>2. PICK d \in Nat : d = LargeThresholdBits - MediumThresholdBits /\ d # 0 /\ d <= 8
                       /\ MediumThresholdBits \in Nat /\ MediumThresholdBits + d = LargeThresholdBits
  <2>1. MediumThresholdBits \in Nat /\ LargeThresholdBits \in Nat
        /\ MediumThresholdBits < LargeThresholdBits
    BY Widths
  <2> QED BY <1>1, <2>1 DEF CountersFit
<1>3. PICK p \in Nat \ {0} : p = 2 ^ MediumThresholdBits
  BY <1>2, Pow2Pos
<1>4. PICK b \in Nat \ {0} : b = 2 ^ d
  BY <1>2, Pow2Pos
<1>5. 2 ^ LargeThresholdBits = p * b
  <2>1. 2 ^ (MediumThresholdBits + d) = 2 ^ MediumThresholdBits * 2 ^ d
    BY <1>2, Pow2Add
  <2> QED BY <1>2, <1>3, <1>4, <2>1
<1>6. b <= 256 /\ 2 <= b
  <2>1. b <= 2 ^ 8
    <3>1. 8 \in Nat
      OBVIOUS
    <3> QED BY <1>2, <1>4, <3>1, PowMono
  <2>2. 2 ^ 1 <= b
    <3>1. 1 \in Nat /\ 1 <= d
      BY <1>2
    <3> QED BY <1>4, <3>1, PowMono
  <2>3. 2 ^ (0 + 1) = 2 * 2 ^ 0
    BY Pow2Succ
  <2> QED BY <2>1, <2>2, <2>3, PowEight, Pow2Zero
<1>7. MediumThreshold = p /\ LargeThreshold = b * p
  BY <1>3, <1>5 DEF MediumThreshold, LargeThreshold, one_at_bit
<1>8. (b * p) \div p = b
  <2>1. (b * p + 0) \div p = b /\ b * p + 0 = b * p
    BY RemOfSum
  <2> QED BY <2>1
<1>9. /\ Small!NumMeta = b - 1 /\ Small!Addresses = p .. b * p - 1 /\ Small!nullptr = 0
      /\ \A i : Small!slab_address(i) = (i + 1) * p
      /\ \A a : Small!get_meta_slab(a) = Uint8((a % (b * p)) \div p - 1)
  BY <1>7, <1>8, SmallTables DEF Small!NumMeta, Small!Addresses, Small!nullptr, Small!slab_address,
     Small!get_meta_slab, Small!Uint8, Uint8
<1> QED BY <1>6, <1>7, <1>9

(* Each object ends in its slab, whose meta_slab its address leads to.     *)
LEMMA SmallPlace ==
  ASSUME NEW i \in Small!Indexes, NEW sc \in SmallInUse, NEW o \in SmallObjects(i, sc)
  PROVE  /\ o \in Small!Addresses /\ Small!slab_address(i) <= o
         /\ o + sizeclass_to_size[sc] <= Small!slab_address(i + 1)
         /\ Small!get_meta_slab(o) = i
         /\ \A j \in Small!Indexes : i < j => Small!slab_address(i + 1) <= Small!slab_address(j)
<1>1. PICK p, b \in Nat \ {0} :
        /\ MediumThreshold = p /\ LargeThreshold = b * p /\ b \in 2 .. 256
        /\ Small!NumMeta = b - 1 /\ Small!Addresses = p .. b * p - 1 /\ Small!nullptr = 0
        /\ \A k : Small!slab_address(k) = (k + 1) * p
        /\ \A a : Small!get_meta_slab(a) = Uint8((a % (b * p)) \div p - 1)
  BY SmallLayout
<1>2. i \in Nat /\ i + 2 <= b
  BY <1>1 DEF Small!Indexes
<1>3. PICK s, n \in Nat : /\ s = sizeclass_to_size[sc] /\ s > 0
                          /\ n = small_slab_slots[sc] /\ n * s <= p
  <2>1. CountersFit /\ sc \in SmallClasses
    BY PartsConstants, SmallTables DEF Small!SmallSlabConstants
  <2>2. small_slab_slots[sc] \in 1 .. 2 ^ 16 - 1 /\ small_slab_slots[sc] * sizeclass_to_size[sc] <= p
    BY <1>1, <2>1, SmallSlots
  <2>3. sc \in SlabClasses
    BY <2>1 DEF SlabClasses, sizeclass_to_size
  <2>4. sizeclass_to_size[sc] \in Nat /\ sizeclass_to_size[sc] > 0
    <3>1. /\ sizeclass_to_size[sc] \in Nat
          /\ MinAllocSize \in Nat \ {0} /\ MinAllocSize <= sizeclass_to_size[sc]
      BY <2>1, <2>3, SlabSizes
    <3> QED BY <3>1
  <2>5. small_slab_slots[sc] \in Nat
    <3>1. 2 ^ 16 \in Nat
      BY Pow2Nat
    <3> QED BY <2>2, <3>1
  <2> QED BY <2>2, <2>4, <2>5
<1>4. PICK m \in 0 .. n - 1 : o = (i + 1) * p + m * s
  BY <1>1, <1>3 DEF SmallObjects
<1>5. PICK x \in Nat : x = m * s /\ x + s <= p
  <2>1. m \in Int /\ n \in Int /\ m < n
    BY <1>3, <1>4
  <2>2. m * s + s <= n * s /\ m * s \in Nat
    BY <1>3, <2>1, MultMono
  <2> QED BY <1>3, <2>2
<1>6. x < p
  BY <1>3, <1>5
<1>7. PICK y \in Nat : y = (i + 1) * p /\ o = y + x /\ p <= y /\ y + p <= b * p
  <2>1. (i + 1) * p \in Nat /\ (i + 1) * p = i * p + p /\ i * p \in Nat
    BY <1>2
  <2>2. (i + 1) * p + p <= b * p
    <3>1. i + 1 \in Int /\ b \in Int /\ i + 1 < b
      BY <1>2
    <3> QED BY <3>1, MultMono
  <2> QED BY <1>4, <1>5, <2>1, <2>2
<1>8. Small!slab_address(i) = y /\ Small!slab_address(i + 1) = y + p
  <2>1. ((i + 1) + 1) * p = (i + 1) * p + p
    BY <1>2
  <2> QED BY <1>1, <1>7, <2>1
<1>9. b * p \in Nat /\ b * p > 0 /\ o \in Nat /\ o < b * p
  BY <1>3, <1>5, <1>7
<1>10. o % (b * p) = o
  <2>1. (0 * (b * p) + o) % (b * p) = o /\ 0 * (b * p) + o = o
    BY <1>9, RemOfSum
  <2> QED BY <2>1
<1>11. o \div p = i + 1
  <2>1. PICK q \in Nat : q = i + 1
    BY <1>2
  <2>2. (q * p + x) \div p = q
    <3>1. p \in Nat /\ p > 0
      OBVIOUS
    <3> QED BY <1>6, <3>1, RemOfSum
  <2> QED BY <1>7, <2>1, <2>2
<1>12. Small!get_meta_slab(o) = i
  <2>1. Uint8(i) = i
    <3>1. i \in Nat /\ i < 256
      BY <1>1, <1>2
    <3> QED BY <3>1, Uint8Same
  <2>2. (i + 1) - 1 = i
    BY <1>2
  <2> QED BY <1>1, <1>10, <1>11, <2>1, <2>2
<1>13. ASSUME NEW j \in Small!Indexes, i < j
       PROVE  Small!slab_address(i + 1) <= Small!slab_address(j)
  <2>1. j \in Nat
    BY <1>1 DEF Small!Indexes
  <2>2. i + 1 \in Int /\ j + 1 \in Int /\ i + 1 < j + 1
    BY <1>2, <1>13, <2>1
  <2>3. (i + 1) * p + p <= (j + 1) * p
    BY <2>2, MultMono
  <2> QED BY <1>1, <1>7, <1>8, <2>3
<1>14. o \in p .. b * p - 1 /\ y <= o /\ o + s <= y + p
  BY <1>3, <1>5, <1>7, <1>9
<1> QED BY <1>1, <1>3, <1>8, <1>12, <1>13, <1>14
(* init puts them there.                                                   *)
LEMMA SmallCut ==
  ASSUME NEW i \in Small!Indexes, NEW sc \in SmallInUse
  PROVE  \E a, s \in Nat : \E n \in Nat \ {0} :
           /\ a = Small!slab_address(i) /\ s = sizeclass_to_size[sc] /\ n = small_slab_slots[sc]
           /\ s > 0 /\ a > 0
           /\ SmallObjects(i, sc) = {a + m * s : m \in 0 .. n - 1}
           /\ Small!ObjectsOf(i, sc) = SmallObjects(i, sc)
<1>1. CountersFit /\ sc \in SmallClasses
  BY PartsConstants, SmallTables DEF Small!SmallSlabConstants
<1>2. PICK p \in Nat \ {0} : /\ p = MediumThreshold /\ i \in Nat
                             /\ Small!slab_address(i) = (i + 1) * p
  <2>1. PICK q, b \in Nat \ {0} :
          /\ MediumThreshold = q /\ b \in 2 .. 256 /\ Small!NumMeta = b - 1
          /\ \A k : Small!slab_address(k) = (k + 1) * q
    BY SmallLayout
  <2> QED BY <2>1 DEF Small!Indexes
<1>3. PICK a \in Nat : a = Small!slab_address(i) /\ a > 0
  <2>1. (i + 1) * p = i * p + p /\ i * p \in Nat
    BY <1>2
  <2> QED BY <1>2, <2>1
<1>4. PICK s \in Nat : s = sizeclass_to_size[sc] /\ s > 0
  <2>1. sc \in SlabClasses
    BY <1>1 DEF SlabClasses, sizeclass_to_size
  <2>2. /\ sizeclass_to_size[sc] \in Nat
        /\ MinAllocSize \in Nat \ {0} /\ MinAllocSize <= sizeclass_to_size[sc]
    BY <1>1, <2>1, SlabSizes
  <2> QED BY <2>2
<1>5. PICK n \in Nat \ {0} : n = small_slab_slots[sc] /\ n * s <= p /\ p < (n + 1) * s
  <2>1. /\ small_slab_slots[sc] \in 1 .. 2 ^ 16 - 1
        /\ small_slab_slots[sc] * s <= p /\ p < (small_slab_slots[sc] + 1) * s
    BY <1>1, <1>2, <1>4, SmallSlots
  <2>2. 2 ^ 16 \in Nat
    BY Pow2Nat
  <2>3. small_slab_slots[sc] \in Nat \ {0}
    BY <2>1, <2>2
  <2> QED BY <2>1, <2>3
<1>6. SmallObjects(i, sc) = {a + m * s : m \in 0 .. n - 1}
  BY <1>3, <1>4, <1>5 DEF SmallObjects
<1>7. Small!ObjectsOf(i, sc) = {x \in {a + m * s : m \in 0 .. p} : x + s <= a + p}
  BY <1>2, <1>3, <1>4, SmallTables DEF Small!ObjectsOf
<1>8. ASSUME NEW m \in Nat
      PROVE  m \in 0 .. n - 1 <=> m \in 0 .. p /\ (a + m * s) + s <= a + p
  <2>1. PICK x \in Nat : x = m * s /\ m <= x
    <3>1. m * s \in Nat /\ m <= m * s
      <4>1. PICK d \in Nat : s = d + 1
        <5>1. s - 1 \in Nat /\ s = (s - 1) + 1
          BY <1>4
        <5> QED BY <5>1
      <4>2. m * s = m * d + m /\ m * d \in Nat
        BY <4>1
      <4> QED BY <4>2
    <3> QED BY <3>1
  <2>2. CASE m < n
    <3>1. x + s <= n * s
      <4>1. m \in Int /\ n \in Int
        OBVIOUS
      <4> QED BY <1>4, <2>1, <2>2, <4>1, MultMono
    <3>2. n * s \in Nat
      BY <1>4
    <3> QED BY <1>2, <1>3, <1>4, <1>5, <2>1, <2>2, <3>1, <3>2
  <2>3. CASE n <= m
    <3>1. (n + 1) * s <= x + s
      <4>1. CASE n = m
        BY <1>4, <2>1, <4>1
      <4>2. CASE n < m
        <5>1. n \in Int /\ m \in Int
          OBVIOUS
        <5>2. n * s + s <= x
          BY <1>4, <2>1, <4>2, <5>1, MultMono
        <5> QED BY <1>4, <2>1, <5>2
      <4> QED BY <2>3, <4>1, <4>2
    <3>2. (n + 1) * s \in Nat
      BY <1>4
    <3> QED BY <1>2, <1>3, <1>4, <1>5, <2>1, <2>3, <3>1, <3>2
  <2> QED BY <2>2, <2>3
<1>9. Small!ObjectsOf(i, sc) = SmallObjects(i, sc)
  <2>1. \A m \in 0 .. p : m \in Nat
    BY <1>2
  <2>2. \A m \in 0 .. n - 1 : m \in Nat
    OBVIOUS
  <2> QED BY <1>6, <1>7, <1>8, <2>1, <2>2
<1> QED BY <1>3, <1>4, <1>5, <1>6, <1>9

(* The greatest number of a set.                                           *)
LEMMA MaxIs ==
  ASSUME NEW S \in SUBSET Nat, IsFiniteSet(S), NEW x \in S, \A y \in S : y <= x
  PROVE  Max(S) = x
<1>1. Max(S) \in S /\ \A y \in S : y <= Max(S)
  BY MaxGreatest
<1>2. Max(S) <= x /\ x <= Max(S) /\ Max(S) \in Nat /\ x \in Nat
  BY <1>1
<1> QED BY <1>2

(* What init writes into the objects of a slab.                            *)
SmallLinks(i, sc, old) ==
  [x \in Small!Addresses |->
     IF x \notin Small!ObjectsOf(i, sc) THEN old[x]
     ELSE Small!Max({y \in Small!ObjectsOf(i, sc) : y < x} \cup {Small!nullptr})]

(* The list of a slab that is cut up: from the last object to the first.   *)
LEMMA SmallFresh ==
  ASSUME NEW i \in Small!Indexes, NEW sc \in SmallInUse, NEW old, NEW new,
         new = SmallLinks(i, sc, old)
  PROVE  /\ small_slab_slots[sc] \in Nat \ {0}
         /\ Small!Max(Small!ObjectsOf(i, sc)) \in SmallObjects(i, sc)
         /\ new = [x \in Small!Addresses |-> new[x]]
         /\ \A x \in Small!Addresses : x \notin SmallObjects(i, sc) => new[x] = old[x]
         /\ \E f : Linked(f, small_slab_slots[sc], Small!Max(Small!ObjectsOf(i, sc)), new, 0,
                          SmallObjects(i, sc))
<1> DEFINE O == SmallObjects(i, sc)
<1>1. PICK a, s \in Nat : \E m \in Nat \ {0} :
           /\ a = Small!slab_address(i) /\ s = sizeclass_to_size[sc] /\ m = small_slab_slots[sc]
           /\ s > 0 /\ a > 0
           /\ O = {a + k * s : k \in 0 .. m - 1}
           /\ Small!ObjectsOf(i, sc) = O
  BY SmallCut
<1>2. PICK n \in Nat \ {0} : n = small_slab_slots[sc] /\ O = {a + k * s : k \in 0 .. n - 1}
  BY <1>1
<1>3. O \subseteq Small!Addresses
  BY SmallPlace
<1>4. Small!nullptr = 0 /\ \A S : Small!Max(S) = Max(S)
  BY PartsCount DEF Small!nullptr
<1>5. new = [x \in Small!Addresses |->
               IF x \notin O THEN old[x] ELSE Max({y \in O : y < x} \cup {0})]
  BY <1>1, <1>4 DEF SmallLinks
<1>6. Small!Max(Small!ObjectsOf(i, sc)) = Max(O)
  BY <1>1, <1>4
<1> HIDE DEF O
<1> DEFINE g == [k \in 0 .. n - 1 |-> a + k * s]
           S == 0 .. n - 1
<1>7. ASSUME NEW k \in S
      PROVE  k \in Nat /\ g[k] = a + k * s /\ g[k] \in O /\ g[k] \in Nat /\ g[k] > 0
  <2>1. k \in Nat /\ k * s \in Nat
    OBVIOUS
  <2>2. g[k] = a + k * s
    OBVIOUS
  <2> HIDE DEF g
  <2> QED BY <1>1, <1>2, <2>1, <2>2
<1>8. O = {g[k] : k \in S}
  BY <1>2
<1>9. \A k, j \in S : k < j => g[k] + s <= g[j]
  <2> SUFFICES ASSUME NEW k \in S, NEW j \in S, k < j PROVE g[k] + s <= g[j]
    OBVIOUS
  <2>1. k \in Int /\ j \in Int
    OBVIOUS
  <2>2. k * s + s <= j * s /\ k * s \in Nat /\ j * s \in Nat
    <3>1. k \in Nat /\ j \in Nat
      OBVIOUS
    <3> QED BY <1>1, <2>1, <3>1, MultMono
  <2> QED BY <1>1, <1>7, <2>2
<1>10. IsFiniteSet(O)
  <2>1. IsFiniteSet(S)
    <3>1. 0 \in Int /\ n - 1 \in Int
      OBVIOUS
    <3> QED BY <3>1, FS_Interval
  <2> HIDE DEF S, g
  <2> QED BY <1>8, <2>1, FiniteImage
<1>11. n - 1 \in S /\ 0 \in S /\ \A k \in S : k <= n - 1 /\ (k # 0 => k - 1 \in S)
  OBVIOUS
<1> HIDE DEF g
<1>12. O \in SUBSET Nat
  BY <1>7, <1>8
<1>13. Max(O) = g[n - 1]
  <2>1. ASSUME NEW y \in O PROVE y <= g[n - 1]
    <3>1. PICK k \in S : y = g[k]
      BY <1>8
    <3>2. k = n - 1 \/ k < n - 1
      OBVIOUS
    <3>3. CASE k < n - 1
      <4>1. g[k] + s <= g[n - 1]
        BY <1>9, <1>11, <3>3
      <4> QED BY <1>1, <1>7, <1>11, <3>1, <4>1
    <3>4. CASE k = n - 1
      BY <1>7, <3>1, <3>4
    <3> QED BY <3>2, <3>3, <3>4
  <2> HIDE DEF S
  <2> QED BY <1>7, <1>10, <1>11, <1>12, <2>1, MaxIs
<1>14. ASSUME NEW k \in S
       PROVE  Max({y \in O : y < g[k]} \cup {0}) = IF k = 0 THEN 0 ELSE g[k - 1]
  <2> DEFINE T == {y \in O : y < g[k]} \cup {0}
             z == IF k = 0 THEN 0 ELSE g[k - 1]
  <2>1. T \in SUBSET Nat
    <3>1. 0 \in Nat
      OBVIOUS
    <3> QED BY <1>12, <3>1, Zenon
  <2>2. IsFiniteSet(T)
    <3>1. IsFiniteSet({y \in O : y < g[k]})
      BY <1>10, FS_Subset
    <3>2. IsFiniteSet({0})
      <4>1. IsFiniteSet({}) /\ {} \cup {0} = {0}
        BY FS_EmptySet
      <4> QED BY <4>1, FS_AddElement
    <3> QED BY <3>1, <3>2, FS_Union
  <2>3. z \in T
    <3>1. CASE k = 0
      BY <3>1
    <3>2. CASE k # 0
      <4>1. k - 1 \in S /\ k - 1 < k
        BY <3>2
      <4>2. g[k - 1] + s <= g[k]
        BY <1>9, <4>1
      <4>3. g[k - 1] < g[k]
        BY <1>1, <1>7, <4>1, <4>2
      <4> QED BY <1>7, <3>2, <4>1, <4>3
    <3> QED BY <3>1, <3>2
  <2>4. ASSUME NEW y \in T PROVE y <= z
    <3>1. CASE y = 0
      <4>1. z \in Nat
        BY <2>1, <2>3
      <4> HIDE DEF z
      <4> QED BY <3>1, <4>1
    <3>2. CASE y \in O /\ y < g[k]
      <4>1. PICK j \in S : y = g[j]
        BY <1>8, <3>2
      <4>2. j < k
        <5> SUFFICES ASSUME ~(j < k) PROVE FALSE
          OBVIOUS
        <5>1. j = k \/ k < j
          OBVIOUS
        <5>2. g[k] <= g[j]
          <6>1. CASE j = k
            BY <1>7, <6>1
          <6>2. CASE k < j
            <7>1. g[k] + s <= g[j]
              BY <1>9, <6>2
            <7> QED BY <1>1, <1>7, <7>1
          <6> QED BY <5>1, <6>1, <6>2
        <5> QED BY <1>7, <3>2, <4>1, <5>2
      <4>3. k # 0 /\ k - 1 \in S /\ (j = k - 1 \/ j < k - 1)
        BY <4>2
      <4>4. CASE j = k - 1
        BY <1>7, <4>1, <4>3, <4>4
      <4>5. CASE j < k - 1
        <5>1. g[j] + s <= g[k - 1]
          BY <1>9, <4>3, <4>5
        <5> QED BY <1>1, <1>7, <4>1, <4>3, <5>1
      <4> QED BY <4>3, <4>4, <4>5
    <3> QED BY <3>1, <3>2
  <2> HIDE DEF T, z
  <2>5. Max(T) = z
    BY <2>1, <2>2, <2>3, <2>4, MaxIs
  <2> QED BY <2>5 DEF T, z
<1>15. ASSUME NEW k \in S PROVE new[g[k]] = IF k = 0 THEN 0 ELSE g[k - 1]
  BY <1>3, <1>5, <1>7, <1>14
<1> DEFINE f == [m \in 0 .. n |-> IF m = n THEN 0 ELSE g[n - 1 - m]]
<1>16. /\ f[n] = 0
       /\ \A m \in S : /\ n - 1 - m \in S /\ f[m] = g[n - 1 - m]
                       /\ f[m + 1] = IF n - 1 - m = 0 THEN 0 ELSE g[(n - 1 - m) - 1]
  <2>1. \A m \in S : /\ n - 1 - m \in S /\ m \in 0 .. n /\ m + 1 \in 0 .. n /\ m # n
                     /\ (m + 1 = n <=> n - 1 - m = 0) /\ n - 1 - (m + 1) = (n - 1 - m) - 1
    OBVIOUS
  <2>2. n \in 0 .. n
    OBVIOUS
  <2> HIDE DEF S
  <2> QED BY <2>1, <2>2
<1> HIDE DEF f
<1>17. Linked(f, n, Max(O), new, 0, O)
  <2>1. f[0] = Max(O)
    <3>1. n - 1 - 0 = n - 1
      OBVIOUS
    <3> QED BY <1>11, <1>13, <1>16, <3>1
  <2>2. ASSUME NEW m \in S PROVE f[m] \in O /\ new[f[m]] = f[m + 1]
    <3>1. PICK k \in S : k = n - 1 - m
      BY <1>16
    <3>2. f[m] = g[k] /\ f[m + 1] = IF k = 0 THEN 0 ELSE g[k - 1]
      BY <1>16, <3>1
    <3> QED BY <1>7, <1>15, <3>2
  <2>3. \A m, k \in S : f[m] = f[k] => m = k
    <3> SUFFICES ASSUME NEW m \in S, NEW k \in S, f[m] = f[k], m # k PROVE FALSE
      OBVIOUS
    <3>1. PICK x, y \in S : x = n - 1 - m /\ y = n - 1 - k /\ (x < y \/ y < x)
      <4>1. n - 1 - m < n - 1 - k \/ n - 1 - k < n - 1 - m
        OBVIOUS
      <4> QED BY <1>16, <4>1
    <3>2. g[x] = g[y]
      BY <1>16, <3>1
    <3>3. g[x] + s <= g[y] \/ g[y] + s <= g[x]
      BY <1>9, <3>1
    <3> QED BY <1>1, <1>7, <3>2, <3>3
  <2>4. ASSUME NEW x \in O PROVE x \in {f[m] : m \in S}
    <3>1. PICK k \in S : x = g[k]
      BY <1>8
    <3>2. n - 1 - k \in S /\ n - 1 - (n - 1 - k) = k
      OBVIOUS
    <3> QED BY <1>16, <3>1, <3>2
  <2> QED BY <1>16, <2>1, <2>2, <2>3, <2>4 DEF Linked
<1>18. new = [x \in Small!Addresses |-> new[x]]
  BY <1>5
<1>19. \A x \in Small!Addresses : x \notin O => new[x] = old[x]
  BY <1>5
<1>20. Max(O) \in O
  BY <1>7, <1>11, <1>13
<1> QED BY <1>2, <1>6, <1>17, <1>18, <1>19, <1>20 DEF O
-----------------------------------------------------------------------------
(* The objects of slab i that its list should have.                        *)
SmallNodes(i) ==
  IF s_sizeclass[i] = -1 THEN {} ELSE SmallObjects(i, s_sizeclass[i]) \ Small!HeldOf(i)

SmallTypes ==
  /\ s_stack = [i \in Small!Indexes |-> i] /\ s_top \in 0 .. Small!NumMeta
  /\ s_sizeclass \in [Small!Indexes -> SmallInUse \cup {-1}]
  /\ \A i \in Small!Indexes : s_sizeclass[i] # -1 <=> i < s_top
  /\ s_slots \in [Small!Indexes -> Nat]
  /\ s_head = [i \in Small!Indexes |-> s_head[i]]
  /\ s_next = [a \in Small!Addresses |-> s_next[a]]

(* What is held comes from the slab it says, which has it as an object.    *)
SmallHeld ==
  \A obj \in s_held : /\ obj = <<obj[1], obj[2]>>
                      /\ obj[2] \in Small!Indexes /\ s_sizeclass[obj[2]] # -1
                      /\ obj[1] \in SmallObjects(obj[2], s_sizeclass[obj[2]])

(* The links of the other objects are a list, whatever holders have        *)
(* written into theirs.                                                    *)
SmallLists ==
  \A i \in Small!Indexes : \E f : Linked(f, s_slots[i], s_head[i], s_next, 0, SmallNodes(i))

SmallListed == s_listed = {i \in Small!Indexes : s_slots[i] # 0}

SmallIInv == SmallTypes /\ SmallHeld /\ SmallLists /\ SmallListed

(* The classes are numbers.                                                *)
LEMMA SmallClassNat == SmallInUse \subseteq Nat
BY PartsConstants, SmallTables DEF Small!SmallSlabConstants, SmallClasses

(* The lists are through objects ...                                       *)
LEMMA SmallNodesIn ==
  ASSUME SmallIInv, NEW i \in Small!Indexes
  PROVE  /\ SmallNodes(i) \subseteq Small!Addresses
         /\ \A x \in SmallNodes(i) : Small!get_meta_slab(x) = i
         /\ s_sizeclass[i] # -1 =>
              /\ s_sizeclass[i] \in SmallInUse
              /\ SmallNodes(i) = SmallObjects(i, s_sizeclass[i]) \ Small!HeldOf(i)
              /\ Small!ObjectsOf(i, s_sizeclass[i]) = SmallObjects(i, s_sizeclass[i])
<1>1. s_sizeclass[i] # -1 => s_sizeclass[i] \in SmallInUse
  BY DEF SmallIInv, SmallTypes
<1>2. SmallNodes(i) = IF s_sizeclass[i] = -1 THEN {}
                      ELSE SmallObjects(i, s_sizeclass[i]) \ Small!HeldOf(i)
  BY DEF SmallNodes
<1>3. CASE s_sizeclass[i] = -1
  BY <1>2, <1>3
<1>4. CASE s_sizeclass[i] # -1
  <2>1. PICK sc \in SmallInUse : sc = s_sizeclass[i]
    BY <1>1, <1>4
  <2>2. Small!ObjectsOf(i, sc) = SmallObjects(i, sc)
    BY SmallCut
  <2>3. \A o \in SmallObjects(i, sc) : o \in Small!Addresses /\ Small!get_meta_slab(o) = i
    BY SmallPlace
  <2>4. SmallNodes(i) = SmallObjects(i, sc) \ Small!HeldOf(i)
    BY <1>2, <1>4, <2>1
  <2> QED BY <2>1, <2>2, <2>3, <2>4
<1> QED BY <1>3, <1>4

(* Who follows the links of a slab finds its nodes. *)
SmallWalks ==
  \A i \in Small!Indexes :
    /\ Small!FreeOf(i) = SmallNodes(i)
    /\ Small!Node(i, s_slots[i]) = Small!nullptr
    /\ IsFiniteSet(SmallNodes(i)) /\ Cardinality(SmallNodes(i)) = s_slots[i]

(* ... and they are what is found.                                         *)
LEMMA SmallFreeOf == SmallIInv => SmallWalks
<1> SUFFICES ASSUME SmallIInv, NEW i \in Small!Indexes
             PROVE  /\ Small!FreeOf(i) = SmallNodes(i)
                    /\ Small!Node(i, s_slots[i]) = Small!nullptr
                    /\ IsFiniteSet(SmallNodes(i)) /\ Cardinality(SmallNodes(i)) = s_slots[i]
  BY DEF SmallWalks
<1>1. PICK n \in Nat : n = s_slots[i]
  BY DEF SmallIInv, SmallTypes
<1>2. PICK f : Linked(f, n, s_head[i], s_next, 0, SmallNodes(i))
  BY <1>1 DEF SmallIInv, SmallLists
<1>3. SmallNodes(i) \subseteq Small!Addresses
  BY SmallNodesIn
<1>4. PICK w : w = Walk(s_head[i], Small!Addresses, s_next, 0)
  OBVIOUS
<1>5. w[n] = 0 /\ {w[m] : m \in 0 .. n - 1} = SmallNodes(i)
  <2>1. Walk(s_head[i], Small!Addresses, s_next, 0)[n] = 0
    BY <1>2, <1>3, LinkedEnd
  <2>2. Visited(Walk(s_head[i], Small!Addresses, s_next, 0), n) = SmallNodes(i)
    BY <1>2, <1>3, LinkedNodes
  <2> QED BY <1>4, <2>1, <2>2 DEF Visited
<1>6. \A m : Small!Node(i, m) = w[m]
  BY <1>4 DEF Small!Node, Walk, Small!nullptr
<1>7. IsFiniteSet(SmallNodes(i)) /\ Cardinality(SmallNodes(i)) = n
  BY <1>1, <1>2, LinkedCount
<1> QED BY <1>1, <1>5, <1>6, <1>7 DEF Small!FreeOf, Small!nullptr

(* A chunk of which no slab is in service.                                 *)
LEMMA SmallInitially ==
  ASSUME Small!Init
  PROVE  SmallIInv /\ \A i \in Small!Indexes : SmallNodes(i) = {} /\ Small!HeldOf(i) = {}
<1>1. PICK p, b \in Nat \ {0} : Small!NumMeta = b - 1
  BY SmallLayout
<1>2. SmallTypes
  BY <1>1 DEF Small!Init, SmallTypes, Small!Indexes, Small!Unused
<1>3. SmallHeld /\ SmallListed
  BY DEF Small!Init, SmallHeld, SmallListed
<1>4. \A i \in Small!Indexes : SmallNodes(i) = {} /\ s_slots[i] = 0 /\ s_head[i] = 0
                               /\ Small!HeldOf(i) = {}
  BY DEF Small!Init, SmallNodes, Small!Unused, Small!nullptr, Small!HeldOf
<1>5. SmallLists
  <2> DEFINE f == [m \in {0} |-> 0]
  <2>1. \A first, links : first = 0 => Linked(f, 0, first, links, 0, {})
    BY DEF Linked
  <2> HIDE DEF f
  <2> QED BY <1>4, <2>1 DEF SmallLists
<1> QED BY <1>2, <1>3, <1>4, <1>5 DEF SmallIInv

(* An allocation takes the first object of a list.                         *)
LEMMA SmallAllocates ==
  ASSUME SmallIInv, NEW i \in Small!Indexes, Small!allocate(i)
  PROVE  /\ SmallIInv'
         /\ s_head[i] \in SmallNodes(i) /\ SmallNodes(i)' = SmallNodes(i) \ {s_head[i]}
         /\ Small!HeldOf(i)' = Small!HeldOf(i) \cup {s_head[i]}
         /\ \A j \in Small!Indexes \ {i} : /\ SmallNodes(j)' = SmallNodes(j)
                                           /\ Small!HeldOf(j)' = Small!HeldOf(j)
<1>1. PICK n \in Nat : n = s_slots[i] /\ n # 0 /\ n - 1 \in Nat
  BY DEF SmallIInv, SmallTypes, Small!allocate, Small!empty
<1>2. PICK p : p = s_head[i]
  OBVIOUS
<1>3. /\ s_slots' = [s_slots EXCEPT ![i] = n - 1] /\ s_head' = [s_head EXCEPT ![i] = s_next[p]]
      /\ s_held' = s_held \cup {<<p, i>>}
      /\ s_listed' = (IF n = 1 THEN s_listed \ {i} ELSE s_listed)
      /\ s_stack' = s_stack /\ s_top' = s_top /\ s_sizeclass' = s_sizeclass /\ s_next' = s_next
  BY <1>1, <1>2 DEF Small!allocate
<1>4. PICK f : Linked(f, n, p, s_next, 0, SmallNodes(i))
  BY <1>1, <1>2 DEF SmallIInv, SmallLists
<1>5. p \in SmallNodes(i) /\ \E g : Linked(g, n - 1, s_next[p], s_next, 0, SmallNodes(i) \ {p})
  BY <1>1, <1>4, LinkedPop
<1>6. s_sizeclass[i] # -1 /\ p \in SmallObjects(i, s_sizeclass[i])
  BY <1>5 DEF SmallNodes
<1>7. /\ Small!HeldOf(i)' = Small!HeldOf(i) \cup {p}
      /\ \A j \in Small!Indexes \ {i} : Small!HeldOf(j)' = Small!HeldOf(j)
  <2>1. \A j : Small!HeldOf(j) = {obj[1] : obj \in {obj \in s_held : obj[2] = j}}
    BY DEF Small!HeldOf
  <2>2. \A j : Small!HeldOf(j)' = {obj[1] : obj \in {obj \in s_held' : obj[2] = j}}
    BY DEF Small!HeldOf
  <2>3. PICK new : new = <<p, i>> /\ new[1] = p /\ new[2] = i
    <3>1. <<p, i>>[1] = p /\ <<p, i>>[2] = i
      OBVIOUS
    <3> QED BY <3>1
  <2>4. {obj \in s_held' : obj[2] = i} = {obj \in s_held : obj[2] = i} \cup {new}
    BY <1>3, <2>3
  <2>5. \A j \in Small!Indexes \ {i} :
          {obj \in s_held' : obj[2] = j} = {obj \in s_held : obj[2] = j}
    BY <1>3, <2>3
  <2>6. {obj[1] : obj \in {obj \in s_held : obj[2] = i} \cup {new}}
          = {obj[1] : obj \in {obj \in s_held : obj[2] = i}} \cup {p}
    BY <2>3
  <2> QED BY <2>1, <2>2, <2>4, <2>5, <2>6
<1>8. SmallNodes(i)' = SmallNodes(i) \ {p}
  BY <1>3, <1>6, <1>7 DEF SmallNodes, SmallObjects
<1>9. \A j \in Small!Indexes \ {i} : SmallNodes(j)' = SmallNodes(j)
  BY <1>3, <1>7 DEF SmallNodes, SmallObjects
<1>10. SmallTypes'
  BY <1>1, <1>3 DEF SmallIInv, SmallTypes
<1>11. SmallHeld'
  BY <1>3, <1>6 DEF SmallIInv, SmallHeld, SmallObjects
<1>12. /\ s_slots'[i] = n - 1 /\ s_head'[i] = s_next[p]
       /\ \A j \in Small!Indexes \ {i} : s_slots'[j] = s_slots[j] /\ s_head'[j] = s_head[j]
  BY <1>3 DEF SmallIInv, SmallTypes
<1>13. SmallLists'
  <2> SUFFICES ASSUME NEW j \in Small!Indexes
               PROVE  \E f1 : Linked(f1, s_slots'[j], s_head'[j], s_next', 0, SmallNodes(j)')
    BY DEF SmallLists, Small!Indexes, Small!NumMeta
  <2>1. CASE j = i
    BY <1>3, <1>5, <1>8, <1>12, <2>1
  <2>2. CASE j # i
    BY <1>3, <1>9, <1>12, <2>2 DEF SmallIInv, SmallLists
  <2> QED BY <2>1, <2>2
<1>14. SmallListed'
  BY <1>1, <1>3, <1>12 DEF SmallIInv, SmallListed
<1> QED BY <1>2, <1>5, <1>7, <1>8, <1>9, <1>10, <1>11, <1>13, <1>14 DEF SmallIInv
(* A free finds the list of the object's slab, whose objects have no other *)
(* slab's list running through them.                                       *)
LEMMA SmallDeallocates ==
  ASSUME SmallIInv, NEW obj \in s_held, Small!deallocate(obj)
  PROVE  \E i \in Small!Indexes, p \in Small!Addresses :
           /\ obj = <<p, i>> /\ p \in Small!HeldOf(i)
           /\ SmallIInv'
           /\ SmallNodes(i)' = SmallNodes(i) \cup {p} /\ Small!HeldOf(i)' = Small!HeldOf(i) \ {p}
           /\ \A j \in Small!Indexes \ {i} : /\ SmallNodes(j)' = SmallNodes(j)
                                             /\ Small!HeldOf(j)' = Small!HeldOf(j)
<1>1. PICK p, i : /\ obj = <<p, i>> /\ obj[1] = p /\ obj[2] = i /\ i \in Small!Indexes
                  /\ s_sizeclass[i] # -1 /\ p \in SmallObjects(i, s_sizeclass[i])
  BY DEF SmallIInv, SmallHeld
<1>2. Small!get_meta_slab(p) = i /\ p \in Small!Addresses
  <2>1. PICK sc \in SmallInUse : sc = s_sizeclass[i]
    BY <1>1 DEF SmallIInv, SmallTypes
  <2> QED BY <1>1, <2>1, SmallPlace
<1>3. PICK n \in Nat : n = s_slots[i]
  BY <1>1 DEF SmallIInv, SmallTypes
<1>4. PICK first : first = s_head[i]
  OBVIOUS
<1>5. /\ s_held' = s_held \ {obj}
      /\ s_listed' = (IF n = 0 THEN s_listed \cup {i} ELSE s_listed)
      /\ s_slots' = [s_slots EXCEPT ![i] = n + 1] /\ s_next' = [s_next EXCEPT ![p] = first]
      /\ s_head' = [s_head EXCEPT ![i] = p]
      /\ s_stack' = s_stack /\ s_top' = s_top /\ s_sizeclass' = s_sizeclass
  BY <1>1, <1>2, <1>3, <1>4 DEF Small!deallocate, Small!empty
<1>6. p \in Small!HeldOf(i)
  BY <1>1 DEF Small!HeldOf
<1>7. p \notin SmallNodes(i) /\ \A j \in Small!Indexes : p \notin SmallNodes(j)
  <2>1. p \notin SmallNodes(i)
    BY <1>1, <1>6 DEF SmallNodes
  <2>2. \A j \in Small!Indexes \ {i} : p \notin SmallNodes(j)
    BY <1>2, SmallNodesIn
  <2> QED BY <1>1, <2>1, <2>2
<1>8. /\ Small!HeldOf(i)' = Small!HeldOf(i) \ {p}
      /\ \A j \in Small!Indexes \ {i} : Small!HeldOf(j)' = Small!HeldOf(j)
  <2>1. \A j : Small!HeldOf(j) = {o[1] : o \in {o \in s_held : o[2] = j}}
    BY DEF Small!HeldOf
  <2>2. \A j : Small!HeldOf(j)' = {o[1] : o \in {o \in s_held' : o[2] = j}}
    BY DEF Small!HeldOf
  <2>3. {o \in s_held' : o[2] = i} = {o \in s_held : o[2] = i} \ {obj}
    BY <1>5
  <2>4. \A j \in Small!Indexes \ {i} : {o \in s_held' : o[2] = j} = {o \in s_held : o[2] = j}
    BY <1>1, <1>5
  <2>5. \A o \in {o \in s_held : o[2] = i} : o[1] = p <=> o = obj
    BY <1>1 DEF SmallIInv, SmallHeld
  <2>6. {o[1] : o \in {o \in s_held : o[2] = i} \ {obj}}
          = {o[1] : o \in {o \in s_held : o[2] = i}} \ {p}
    BY <2>5
  <2> QED BY <2>1, <2>2, <2>3, <2>4, <2>6
<1>9. SmallNodes(i)' = SmallNodes(i) \cup {p}
  BY <1>1, <1>5, <1>8 DEF SmallNodes, SmallObjects
<1>10. \A j \in Small!Indexes \ {i} : SmallNodes(j)' = SmallNodes(j)
  BY <1>5, <1>8 DEF SmallNodes, SmallObjects
<1>11. SmallTypes'
  <2>1. n + 1 \in Nat
    OBVIOUS
  <2>2. s_slots' \in [Small!Indexes -> Nat]
    BY <1>1, <1>5, <2>1 DEF SmallIInv, SmallTypes
  <2>3. s_head' = [k \in Small!Indexes |-> s_head'[k]]
    BY <1>5 DEF SmallIInv, SmallTypes
  <2>4. s_next' = [a \in Small!Addresses |-> s_next'[a]]
    BY <1>5 DEF SmallIInv, SmallTypes
  <2> QED BY <1>5, <2>2, <2>3, <2>4 DEF SmallIInv, SmallTypes
<1>12. SmallHeld'
  BY <1>5 DEF SmallIInv, SmallHeld, SmallObjects
<1>13. /\ s_slots'[i] = n + 1 /\ s_head'[i] = p /\ s_next'[p] = first
       /\ \A j \in Small!Indexes \ {i} : s_slots'[j] = s_slots[j] /\ s_head'[j] = s_head[j]
       /\ \A x : x # p => s_next'[x] = s_next[x]
  BY <1>1, <1>2, <1>5 DEF SmallIInv, SmallTypes
<1>14. SmallLists'
  <2> SUFFICES ASSUME NEW j \in Small!Indexes
               PROVE  \E f : Linked(f, s_slots'[j], s_head'[j], s_next', 0, SmallNodes(j)')
    BY DEF SmallLists, Small!Indexes, Small!NumMeta
  <2>1. CASE j = i
    <3>1. PICK f : Linked(f, n, first, s_next, 0, SmallNodes(i))
      BY <1>1, <1>3, <1>4 DEF SmallIInv, SmallLists
    <3>2. \A x \in SmallNodes(i) : s_next'[x] = s_next[x]
      BY <1>7, <1>13
    <3>3. \E f1 : Linked(f1, n + 1, p, s_next', 0, SmallNodes(i) \cup {p})
      <4>1. PICK links, new, nodes : links = s_next /\ new = s_next' /\ nodes = SmallNodes(i)
        OBVIOUS
      <4>2. /\ Linked(f, n, first, links, 0, nodes) /\ p \notin nodes /\ new[p] = first
            /\ \A x \in nodes : new[x] = links[x]
        BY <1>7, <1>13, <3>1, <3>2, <4>1
      <4>3. \E f1 : Linked(f1, n + 1, p, new, 0, nodes \cup {p})
        BY <4>2, LinkedPush
      <4> QED BY <4>1, <4>3
    <3> QED BY <1>9, <1>13, <2>1, <3>3
  <2>2. CASE j # i
    <3>1. PICK m \in Nat : m = s_slots[j]
      BY DEF SmallIInv, SmallTypes
    <3>2. PICK f : Linked(f, m, s_head[j], s_next, 0, SmallNodes(j))
      BY <3>1 DEF SmallIInv, SmallLists
    <3>3. \A x \in SmallNodes(j) : s_next'[x] = s_next[x]
      BY <1>7, <1>13
    <3>4. Linked(f, m, s_head[j], s_next', 0, SmallNodes(j))
      BY <3>2, <3>3, LinkedSame
    <3> QED BY <1>10, <1>13, <2>2, <3>1, <3>4
  <2> QED BY <2>1, <2>2
<1>15. SmallListed'
  BY <1>1, <1>3, <1>5, <1>13 DEF SmallIInv, SmallTypes, SmallListed
<1> QED BY <1>1, <1>2, <1>6, <1>8, <1>9, <1>10, <1>11, <1>12, <1>14, <1>15 DEF SmallIInv

(* What a holder writes goes into no list.                                 *)
LEMMA SmallWrites ==
  ASSUME SmallIInv, NEW obj \in s_held, Small!Write(obj)
  PROVE  /\ SmallIInv'
         /\ \A j \in Small!Indexes : /\ SmallNodes(j)' = SmallNodes(j)
                                     /\ Small!HeldOf(j)' = Small!HeldOf(j)
<1>1. PICK p, i : /\ obj = <<p, i>> /\ obj[1] = p /\ obj[2] = i /\ i \in Small!Indexes
                  /\ s_sizeclass[i] # -1 /\ p \in SmallObjects(i, s_sizeclass[i])
  BY DEF SmallIInv, SmallHeld
<1>2. Small!get_meta_slab(p) = i
  <2>1. PICK sc \in SmallInUse : sc = s_sizeclass[i]
    BY <1>1 DEF SmallIInv, SmallTypes
  <2> QED BY <1>1, <2>1, SmallPlace
<1>3. PICK v : s_next' = [s_next EXCEPT ![p] = v]
  BY <1>1 DEF Small!Write
<1>4. /\ s_slots' = s_slots /\ s_head' = s_head /\ s_held' = s_held /\ s_listed' = s_listed
      /\ s_stack' = s_stack /\ s_top' = s_top /\ s_sizeclass' = s_sizeclass
  BY DEF Small!Write, Small!meta
<1>5. \A j \in Small!Indexes : p \notin SmallNodes(j)
  <2>1. p \notin SmallNodes(i)
    BY <1>1 DEF SmallNodes, Small!HeldOf
  <2>2. \A j \in Small!Indexes \ {i} : p \notin SmallNodes(j)
    BY <1>2, SmallNodesIn
  <2> QED BY <2>1, <2>2
<1>6. \A j : SmallNodes(j)' = SmallNodes(j) /\ Small!HeldOf(j)' = Small!HeldOf(j)
  <2>1. \A j : Small!HeldOf(j)' = Small!HeldOf(j)
    BY <1>4 DEF Small!HeldOf
  <2> QED BY <1>4, <2>1 DEF SmallNodes, SmallObjects
<1>7. SmallTypes'
  BY <1>3, <1>4 DEF SmallIInv, SmallTypes
<1>8. SmallHeld' /\ SmallListed'
  BY <1>4 DEF SmallIInv, SmallHeld, SmallListed, SmallObjects
<1>9. SmallLists'
  <2> SUFFICES ASSUME NEW j \in Small!Indexes
               PROVE  \E f : Linked(f, s_slots'[j], s_head'[j], s_next', 0, SmallNodes(j)')
    BY DEF SmallLists, Small!Indexes, Small!NumMeta
  <2>1. PICK m \in Nat : m = s_slots[j]
    BY DEF SmallIInv, SmallTypes
  <2>2. PICK f : Linked(f, m, s_head[j], s_next, 0, SmallNodes(j))
    BY <2>1 DEF SmallIInv, SmallLists
  <2>3. \A x \in SmallNodes(j) : s_next'[x] = s_next[x]
    <3>1. \A x \in Small!Addresses : x # p => s_next'[x] = s_next[x]
      BY <1>3 DEF SmallIInv, SmallTypes
    <3> QED BY <1>5, <3>1, SmallNodesIn
  <2>4. Linked(f, m, s_head[j], s_next', 0, SmallNodes(j))
    BY <2>2, <2>3, LinkedSame
  <2> QED BY <1>4, <1>6, <2>1, <2>4
<1> QED BY <1>6, <1>7, <1>8, <1>9 DEF SmallIInv

(* A slab that comes into service has all its objects in its list.         *)
LEMMA SmallAllocatesSlab ==
  ASSUME SmallIInv, NEW sc \in SmallInUse, Small!allocate_slab(sc)
  PROVE  \E i \in Small!Indexes :
           /\ SmallIInv'
           /\ Small!HeldOf(i) = {} /\ Small!HeldOf(i)' = {}
           /\ SmallNodes(i)' \subseteq Small!Addresses
           /\ \A j \in Small!Indexes \ {i} : /\ SmallNodes(j)' = SmallNodes(j)
                                             /\ Small!HeldOf(j)' = Small!HeldOf(j)
<1>1. PICK i \in Small!Indexes : i = s_top /\ s_stack[s_top] = i /\ s_sizeclass[i] = -1
  <2>1. s_top \in Small!Indexes
    <3>1. PICK p, b \in Nat \ {0} : Small!NumMeta = b - 1
      BY SmallLayout
    <3> QED BY <3>1 DEF Small!allocate_slab, Small!Indexes, SmallIInv, SmallTypes
  <2>2. ~(s_top < s_top)
    BY DEF SmallIInv, SmallTypes
  <2> QED BY <2>1, <2>2 DEF SmallIInv, SmallTypes
<1>2. PICK first : first = Small!Max(Small!ObjectsOf(i, sc))
  OBVIOUS
<1>3. PICK n : n = small_slab_slots[sc]
  OBVIOUS
<1>4. /\ s_top' = i + 1 /\ s_sizeclass' = [s_sizeclass EXCEPT ![i] = sc]
      /\ s_slots' = [s_slots EXCEPT ![i] = n] /\ s_head' = [s_head EXCEPT ![i] = first]
      /\ s_next' = [x \in Small!Addresses |->
                  IF x \notin Small!ObjectsOf(i, sc) THEN s_next[x]
                  ELSE Small!Max({y \in Small!ObjectsOf(i, sc) : y < x} \cup {Small!nullptr})]
      /\ s_listed' = s_listed \cup {i} /\ s_stack' = s_stack /\ s_held' = s_held
  BY <1>1, <1>2, <1>3, SmallTables DEF Small!allocate_slab
<1>5. /\ n \in Nat \ {0} /\ s_next' = [x \in Small!Addresses |-> s_next'[x]]
      /\ \A x \in Small!Addresses : x \notin SmallObjects(i, sc) => s_next'[x] = s_next[x]
      /\ \E f : Linked(f, n, first, s_next', 0, SmallObjects(i, sc))
  <2>1. PICK old, new : old = s_next /\ new = s_next'
    OBVIOUS
  <2>2. new = SmallLinks(i, sc, old)
    BY <1>4, <2>1 DEF SmallLinks
  <2>3. small_slab_slots[sc] \in Nat \ {0} /\ new = [x \in Small!Addresses |-> new[x]]
    BY <2>2, SmallFresh
  <2>4. \A x \in Small!Addresses : x \notin SmallObjects(i, sc) => new[x] = old[x]
    BY <2>2, SmallFresh
  <2>5. \E f : Linked(f, small_slab_slots[sc], Small!Max(Small!ObjectsOf(i, sc)), new, 0,
                     SmallObjects(i, sc))
    BY <2>2, SmallFresh
  <2> QED BY <1>2, <1>3, <2>1, <2>3, <2>4, <2>5
<1>6. Small!HeldOf(i) = {} /\ \A j : Small!HeldOf(j)' = Small!HeldOf(j)
  <2>1. Small!HeldOf(i) = {}
    BY <1>1 DEF Small!HeldOf, SmallIInv, SmallHeld
  <2>2. \A j : Small!HeldOf(j)' = Small!HeldOf(j)
    BY <1>4 DEF Small!HeldOf
  <2> QED BY <2>1, <2>2
<1>7. /\ s_slots'[i] = n /\ s_head'[i] = first /\ s_sizeclass'[i] = sc
      /\ \A j \in Small!Indexes \ {i} : /\ s_slots'[j] = s_slots[j] /\ s_head'[j] = s_head[j]
                                        /\ s_sizeclass'[j] = s_sizeclass[j]
  BY <1>1, <1>4 DEF SmallIInv, SmallTypes
<1>8. sc # -1
  BY SmallClassNat
<1>9. /\ SmallNodes(i)' = SmallObjects(i, sc)
      /\ \A j \in Small!Indexes \ {i} : SmallNodes(j)' = SmallNodes(j)
  <2>1. SmallNodes(i)' = SmallObjects(i, sc)
    BY <1>6, <1>7, <1>8 DEF SmallNodes, SmallObjects
  <2>2. \A j \in Small!Indexes \ {i} : SmallNodes(j)' = SmallNodes(j)
    BY <1>6, <1>7 DEF SmallNodes, SmallObjects
  <2> QED BY <2>1, <2>2
<1>10. SmallTypes'
  <2>1. i + 1 \in 0 .. Small!NumMeta
    <3>1. PICK p, b \in Nat \ {0} : Small!NumMeta = b - 1
      BY SmallLayout
    <3> QED BY <1>1, <3>1 DEF Small!Indexes
  <2>2. \A j \in Small!Indexes : s_sizeclass'[j] # -1 <=> j < i + 1
    <3> TAKE j \in Small!Indexes
    <3>1. j \in Int /\ i \in Int
      BY DEF Small!Indexes
    <3>2. CASE j = i
      BY <1>7, <1>8, <3>1, <3>2
    <3>3. CASE j # i
      <4>1. s_sizeclass[j] # -1 <=> j < i
        BY <1>1 DEF SmallIInv, SmallTypes
      <4> QED BY <1>7, <3>1, <3>3, <4>1
    <3> QED BY <3>2, <3>3
  <2> QED BY <1>1, <1>4, <1>5, <2>1, <2>2 DEF SmallIInv, SmallTypes
<1>11. SmallHeld'
  <2> SUFFICES ASSUME NEW obj \in s_held'
               PROVE  /\ obj = <<obj[1], obj[2]>>
                      /\ obj[2] \in Small!Indexes /\ s_sizeclass'[obj[2]] # -1
                      /\ obj[1] \in SmallObjects(obj[2], s_sizeclass'[obj[2]])
    BY DEF SmallHeld, SmallObjects
  <2>1. /\ obj = <<obj[1], obj[2]>>
        /\ obj[2] \in Small!Indexes /\ s_sizeclass[obj[2]] # -1
        /\ obj[1] \in SmallObjects(obj[2], s_sizeclass[obj[2]])
    BY <1>4 DEF SmallIInv, SmallHeld
  <2>2. obj[2] # i
    BY <1>1, <2>1
  <2> QED BY <1>7, <2>1, <2>2
<1>12. SmallLists'
  <2> SUFFICES ASSUME NEW j \in Small!Indexes
               PROVE  \E f : Linked(f, s_slots'[j], s_head'[j], s_next', 0, SmallNodes(j)')
    BY DEF SmallLists, Small!Indexes, Small!NumMeta
  <2>1. CASE j = i
    BY <1>5, <1>7, <1>9, <2>1
  <2>2. CASE j # i
    <3>1. PICK m \in Nat : m = s_slots[j]
      BY DEF SmallIInv, SmallTypes
    <3>2. PICK f : Linked(f, m, s_head[j], s_next, 0, SmallNodes(j))
      BY <3>1 DEF SmallIInv, SmallLists
    <3>3. \A x \in SmallNodes(j) : s_next'[x] = s_next[x]
      <4>1. \A x \in SmallNodes(j) : x \in Small!Addresses /\ Small!get_meta_slab(x) = j
        BY SmallNodesIn
      <4>2. \A x \in SmallObjects(i, sc) : Small!get_meta_slab(x) = i
        BY SmallPlace
      <4> QED BY <1>5, <2>2, <4>1, <4>2
    <3>4. Linked(f, m, s_head[j], s_next', 0, SmallNodes(j))
      BY <3>2, <3>3, LinkedSame
    <3> QED BY <1>7, <1>9, <2>2, <3>1, <3>4
  <2> QED BY <2>1, <2>2
<1>13. SmallListed'
  BY <1>1, <1>4, <1>5, <1>7 DEF SmallIInv, SmallListed
<1>14. SmallObjects(i, sc) \subseteq Small!Addresses
  BY SmallPlace
<1> QED BY <1>6, <1>9, <1>10, <1>11, <1>12, <1>13, <1>14 DEF SmallIInv

(* The small slab is as it was when another part takes a step.             *)
LEMMA SmallStill ==
  ASSUME SmallIInv, UNCHANGED Small!vars
  PROVE  /\ SmallIInv'
         /\ \A j \in Small!Indexes : /\ SmallNodes(j)' = SmallNodes(j)
                                     /\ Small!HeldOf(j)' = Small!HeldOf(j)
<1>1. \A j : SmallNodes(j)' = SmallNodes(j) /\ Small!HeldOf(j)' = Small!HeldOf(j)
  <2>1. \A j : Small!HeldOf(j)' = Small!HeldOf(j)
    BY DEF Small!vars, Small!HeldOf
  <2> QED BY <2>1 DEF Small!vars, SmallNodes, SmallObjects
<1>2. SmallTypes'
  BY DEF Small!vars, SmallIInv, SmallTypes
<1>3. SmallHeld' /\ SmallListed'
  BY DEF Small!vars, SmallIInv, SmallHeld, SmallListed, SmallObjects
<1>4. SmallLists'
  BY <1>1 DEF Small!vars, SmallIInv, SmallLists, Small!Indexes, Small!NumMeta
<1> QED BY <1>1, <1>2, <1>3, <1>4 DEF SmallIInv

(* So its invariant is inductive.                                          *)
LEMMA SmallStep ==
  ASSUME SmallIInv, [Small!Next]_(Small!vars)
  PROVE  SmallIInv'
<1>1. CASE UNCHANGED Small!vars
  BY <1>1, SmallStill
<1>2. CASE \E sc \in SmallInUse : Small!allocate_slab(sc)
  BY <1>2, SmallAllocatesSlab
<1>3. CASE \E i \in Small!Indexes : Small!allocate(i)
  BY <1>3, SmallAllocates
<1>4. CASE \E obj \in s_held : Small!deallocate(obj)
  BY <1>4, SmallDeallocates
<1>5. CASE \E obj \in s_held : Small!Write(obj)
  BY <1>5, SmallWrites
<1> QED BY <1>1, <1>2, <1>3, <1>4, <1>5 DEF Small!Next
-----------------------------------------------------------------------------
(* What a slab in service has objects of.                                  *)
LEMMA SmallShare ==
  ASSUME SmallIInv, NEW i \in Small!InService
  PROVE  /\ i \in Small!Indexes /\ s_sizeclass[i] \in SmallInUse
         /\ Small!FreeOf(i) = Small!ObjectsOf(i, s_sizeclass[i]) \ Small!HeldOf(i)
         /\ Small!FreeOf(i) \cup Small!HeldOf(i) = SmallObjects(i, s_sizeclass[i])
<1>1. i \in Small!Indexes /\ s_sizeclass[i] # -1
  BY DEF Small!InService, Small!Unused
<1>2. /\ s_sizeclass[i] \in SmallInUse /\ Small!FreeOf(i) = SmallNodes(i)
      /\ SmallNodes(i) = SmallObjects(i, s_sizeclass[i]) \ Small!HeldOf(i)
      /\ Small!ObjectsOf(i, s_sizeclass[i]) = SmallObjects(i, s_sizeclass[i])
  BY <1>1, SmallNodesIn, SmallFreeOf DEF SmallWalks
<1>3. Small!HeldOf(i) \subseteq SmallObjects(i, s_sizeclass[i])
  BY DEF SmallIInv, SmallHeld, Small!HeldOf
<1> QED BY <1>1, <1>2, <1>3

(* The invariant says what the list of each slab is ...                    *)
LEMMA SmallListsRight ==
  ASSUME SmallIInv
  PROVE  Small!ListIsFreeObjects /\ Small!ListedIffAvailable
<1>1. ASSUME NEW i \in Small!InService
      PROVE  /\ Small!Node(i, s_slots[i]) = Small!nullptr
             /\ Small!Cardinality(Small!FreeOf(i)) = s_slots[i]
             /\ Small!FreeOf(i) = Small!ObjectsOf(i, s_sizeclass[i]) \ Small!HeldOf(i)
  BY SmallShare, SmallFreeOf, PartsCount DEF SmallWalks
<1>2. s_listed = {i \in Small!InService : s_slots[i] # 0}
  <2>1. ASSUME NEW i \in Small!Indexes, s_slots[i] # 0 PROVE i \in Small!InService
    <3>1. Cardinality(SmallNodes(i)) # 0
      BY <2>1, SmallFreeOf DEF SmallWalks
    <3>2. SmallNodes(i) # {}
      BY <3>1, FS_EmptySet
    <3> QED BY <3>2 DEF SmallNodes, Small!InService, Small!Unused
  <2> QED BY <2>1 DEF SmallIInv, SmallListed, Small!InService
<1> QED BY <1>1, <1>2 DEF Small!ListIsFreeObjects, Small!ListedIffAvailable

(* ... and that objects do not overlap, be they of one slab or of two.     *)
LEMMA SmallApart ==
  ASSUME SmallIInv
  PROVE  Small!ObjectsApart
<1>1. PICK p, b \in Nat \ {0} :
        /\ MediumThreshold = p /\ LargeThreshold = b * p /\ b \in 2 .. 256
        /\ Small!NumMeta = b - 1 /\ Small!Addresses = p .. b * p - 1
        /\ \A k : Small!slab_address(k) = (k + 1) * p
  BY SmallLayout
<1> SUFFICES ASSUME NEW obj \in Small!Addresses \X Small!InService,
                    NEW other \in Small!Addresses \X Small!InService,
                    obj[1] \in Small!FreeOf(obj[2]) \cup Small!HeldOf(obj[2]),
                    other[1] \in Small!FreeOf(other[2]) \cup Small!HeldOf(other[2])
             PROVE  LET end == obj[1] + sizeclass_to_size[s_sizeclass[obj[2]]]
                    IN  /\ obj[1] >= MediumThreshold /\ end <= LargeThreshold
                        /\ obj[1] < other[1] => end <= other[1]
  BY SmallTables DEF Small!ObjectsApart
<1>2. PICK x, y : x = obj[1] /\ y = other[1] /\ x \in Small!Addresses /\ y \in Small!Addresses
  OBVIOUS
<1>3. PICK i, j \in Small!Indexes : i = obj[2] /\ j = other[2]
  BY SmallShare
<1>4. PICK c, d \in SmallInUse : /\ c = s_sizeclass[i] /\ d = s_sizeclass[j]
                                 /\ x \in SmallObjects(i, c) /\ y \in SmallObjects(j, d)
  BY <1>2, <1>3, SmallShare
<1>5. PICK a, s \in Nat : \E n \in Nat \ {0} :
        /\ a = Small!slab_address(i) /\ s = sizeclass_to_size[c] /\ s > 0
        /\ SmallObjects(i, c) = {a + m * s : m \in 0 .. n - 1}
  BY SmallCut
<1>6. /\ x \in Small!Addresses /\ x + s <= Small!slab_address(i + 1) /\ Small!slab_address(i) <= x
      /\ \A k \in Small!Indexes : i < k => Small!slab_address(i + 1) <= Small!slab_address(k)
  BY <1>4, <1>5, SmallPlace
<1>7. /\ y \in Small!Addresses /\ Small!slab_address(j) <= y /\ y <= Small!slab_address(j + 1)
      /\ \A k \in Small!Indexes : j < k => Small!slab_address(j + 1) <= Small!slab_address(k)
  <2>1. sizeclass_to_size[d] \in Nat
    BY SmallCut
  <2>2. y + sizeclass_to_size[d] <= Small!slab_address(j + 1)
    BY <1>4, SmallPlace
  <2>3. y \in Nat /\ Small!slab_address(j + 1) \in Nat
    <3>1. b * p \in Nat /\ j \in Nat
      BY <1>1 DEF Small!Indexes
    <3>2. y \in Nat
      BY <1>1, <1>2, <3>1
    <3>3. ((j + 1) + 1) * p \in Nat
      BY <3>1
    <3> QED BY <1>1, <3>2, <3>3
  <2> QED BY <1>4, <2>1, <2>2, <2>3, SmallPlace
<1>8. /\ b * p \in Nat /\ i \in Nat /\ j \in Nat /\ x \in Nat /\ y \in Nat /\ p <= x
      /\ Small!slab_address(i) \in Nat /\ Small!slab_address(i + 1) \in Nat
      /\ Small!slab_address(j) \in Nat /\ Small!slab_address(j + 1) \in Nat
      /\ Small!slab_address(i + 1) <= b * p
  <2>1. b * p \in Nat /\ i \in Nat /\ j \in Nat /\ i + 2 <= b
    BY <1>1 DEF Small!Indexes
  <2>2. x \in Nat /\ y \in Nat /\ p <= x
    BY <1>1, <1>2, <2>1
  <2>3. \A k \in Nat : (k + 1) * p \in Nat
    OBVIOUS
  <2>4. ((i + 1) + 1) * p <= b * p
    <3>1. CASE i + 2 = b
      BY <2>1, <3>1
    <3>2. CASE i + 2 < b
      <4>1. i + 2 \in Int /\ b \in Int
        BY <2>1
      <4>2. (i + 2) * p + p <= b * p /\ (i + 2) * p \in Nat
        BY <2>1, <3>2, <4>1, MultMono
      <4> QED BY <2>1, <4>2
    <3> QED BY <2>1, <3>1, <3>2
  <2>5. \A k \in Nat : Small!slab_address(k) \in Nat
    BY <1>1, <2>3
  <2>6. i + 1 \in Nat /\ j + 1 \in Nat
    BY <2>1
  <2>7. Small!slab_address(i + 1) <= b * p
    BY <1>1, <2>4
  <2> QED BY <2>1, <2>2, <2>5, <2>6, <2>7
<1>9. ASSUME x < y PROVE x + s <= y
  <2>1. CASE i = j
    <3>1. y \in SmallObjects(i, c)
      BY <1>4, <2>1
    <3>2. PICK m, k \in Nat : x = a + m * s /\ y = a + k * s
      <4>1. PICK n \in Nat \ {0} : SmallObjects(i, c) = {a + m * s : m \in 0 .. n - 1}
        BY <1>5
      <4>2. 0 .. n - 1 \subseteq Nat
        OBVIOUS
      <4> QED BY <1>4, <3>1, <4>1, <4>2
    <3>3. m < k
      <4> SUFFICES ASSUME k <= m PROVE FALSE
        OBVIOUS
      <4>1. k * s <= m * s
        <5>1. CASE k = m
          BY <5>1
        <5>2. CASE k < m
          <6>1. k \in Int /\ m \in Int
            OBVIOUS
          <6>2. k * s + s <= m * s /\ k * s \in Nat /\ m * s \in Nat
            BY <1>5, <5>2, <6>1, MultMono
          <6> QED BY <1>5, <6>2
        <5> QED BY <5>1, <5>2
      <4>2. k * s \in Nat /\ m * s \in Nat
        OBVIOUS
      <4> QED BY <1>9, <3>2, <4>1, <4>2
    <3>4. m * s + s <= k * s /\ m * s \in Nat /\ k * s \in Nat
      <4>1. k \in Int /\ m \in Int
        OBVIOUS
      <4> QED BY <1>5, <3>3, <4>1, MultMono
    <3> QED BY <3>2, <3>4
  <2>2. CASE i < j
    BY <1>6, <1>7, <1>8, <2>2
  <2>3. CASE j < i
    BY <1>6, <1>7, <1>8, <1>9, <2>3
  <2> QED BY <1>8, <2>1, <2>2, <2>3
<1>10. obj[1] >= MediumThreshold /\ x + s <= LargeThreshold
  <2>1. obj[1] >= MediumThreshold
    BY <1>1, <1>2, <1>8
  <2>2. x + s <= b * p
    BY <1>5, <1>6, <1>8
  <2> QED BY <1>1, <2>1, <2>2
<1>11. obj[1] + sizeclass_to_size[s_sizeclass[obj[2]]] = x + s
  BY <1>2, <1>3, <1>4, <1>5
<1> QED BY <1>2, <1>9, <1>10, <1>11

(* Each list implements the set of free objects.                           *)
LEMMA SmallImplements ==
  ASSUME SmallIInv, SmallIInv', [Small!Next]_(Small!vars), NEW i \in Small!Indexes
  PROVE  [Small!Abstract(i)!Next]_<<Small!FreeOf(i), Small!HeldOf(i)>>
<1>1. Small!FreeOf(i) = SmallNodes(i)
  BY SmallFreeOf DEF SmallWalks
<1>2. Small!FreeOf(i)' = SmallNodes(i)'
  <2>1. SmallWalks'
    BY SmallFreeOf, PTL
  <2> QED BY <2>1 DEF SmallWalks, Small!Indexes, Small!NumMeta
<1>3. ASSUME SmallNodes(i)' = SmallNodes(i) /\ Small!HeldOf(i)' = Small!HeldOf(i)
      PROVE  UNCHANGED <<Small!FreeOf(i), Small!HeldOf(i)>>
  BY <1>1, <1>2, <1>3
<1>4. CASE UNCHANGED Small!vars
  BY <1>3, <1>4, SmallStill
<1>5. CASE \E sc \in SmallInUse : Small!allocate_slab(sc)
  <2>1. PICK j \in Small!Indexes :
          /\ Small!HeldOf(j) = {} /\ Small!HeldOf(j)' = {}
          /\ SmallNodes(j)' \subseteq Small!Addresses
          /\ \A k \in Small!Indexes \ {j} : /\ SmallNodes(k)' = SmallNodes(k)
                                            /\ Small!HeldOf(k)' = Small!HeldOf(k)
    BY <1>5, SmallAllocatesSlab
  <2>2. CASE i = j
    BY <1>2, <2>1, <2>2 DEF Small!Abstract!Next, Small!Abstract!Cut
  <2>3. CASE i # j
    BY <1>3, <2>1, <2>3
  <2> QED BY <2>2, <2>3
<1>6. CASE \E j \in Small!Indexes : Small!allocate(j)
  <2>1. PICK j \in Small!Indexes : Small!allocate(j)
    BY <1>6
  <2>2. CASE i = j
    BY <1>1, <1>2, <2>1, <2>2, SmallAllocates DEF Small!Abstract!Next, Small!Abstract!Allocate
  <2>3. CASE i # j
    BY <1>3, <2>1, <2>3, SmallAllocates
  <2> QED BY <2>2, <2>3
<1>7. CASE \E obj \in s_held : Small!deallocate(obj)
  <2>1. PICK j \in Small!Indexes, p \in Small!Addresses :
           /\ p \in Small!HeldOf(j)
           /\ SmallNodes(j)' = SmallNodes(j) \cup {p} /\ Small!HeldOf(j)' = Small!HeldOf(j) \ {p}
           /\ \A k \in Small!Indexes \ {j} : /\ SmallNodes(k)' = SmallNodes(k)
                                             /\ Small!HeldOf(k)' = Small!HeldOf(k)
    BY <1>7, SmallDeallocates
  <2>2. CASE i = j
    BY <1>1, <1>2, <2>1, <2>2 DEF Small!Abstract!Next, Small!Abstract!Deallocate
  <2>3. CASE i # j
    BY <1>3, <2>1, <2>3
  <2> QED BY <2>2, <2>3
<1>8. CASE \E obj \in s_held : Small!Write(obj)
  BY <1>3, <1>8, SmallWrites
<1> QED BY <1>4, <1>5, <1>6, <1>7, <1>8 DEF Small!Next
-----------------------------------------------------------------------------
(* The cells of a remote_cache: objects, and the dummies of its lists,     *)
(* which are neither objects nor nullptr nor one another.                  *)
LEMMA RemoteMemory ==
  /\ Remote!nullptr \notin Remote!Cells
  /\ \A o \in Objects : o \in Remote!Cells /\ o \in Nat
  /\ \A i \in Remote!RemoteSlots : /\ i \in Nat
                                   /\ Remote!dummy(i) \in Remote!Cells
                                   /\ Remote!dummy(i) \notin Objects
  /\ \A i, j \in Remote!RemoteSlots : Remote!dummy(i) = Remote!dummy(j) => i = j
<1>1. Objects \subseteq Nat \ {0}
  BY PartsConstants DEF Remote!RemoteListConstants, Remote!nullptr
<1>2. Remote!RemoteSlots \subseteq Nat
  BY DEF Remote!RemoteSlots
<1>3. \A i \in Nat : Remote!dummy(i) = -1 - i /\ Remote!dummy(i) < 0
  BY DEF Remote!dummy
<1>4. \A o \in Objects : o \in Nat /\ o # 0
  BY <1>1
<1>5. \A i \in Remote!RemoteSlots : Remote!dummy(i) \notin Objects /\ Remote!dummy(i) # 0
  BY <1>1, <1>2, <1>3
<1>6. \A i, j \in Remote!RemoteSlots : Remote!dummy(i) = Remote!dummy(j) => i = j
  BY <1>2, <1>3
<1> QED BY <1>2, <1>4, <1>5, <1>6 DEF Remote!Cells, Remote!nullptr

(* A list without repetition has at most all objects.                      *)
LEMMA RemoteLength ==
  ASSUME NEW s \in Seq(Objects), IsInjective(s)
  PROVE  /\ Len(s) \in Nat /\ Cardinality(Objects) \in Nat /\ Len(s) <= Cardinality(Objects)
         /\ DOMAIN s = 1 .. Len(s)
<1>1. IsFiniteSet(Objects)
  BY PartsConstants, PartsCount DEF Remote!RemoteListConstants
<1>2. Len(s) \in Nat /\ DOMAIN s = 1 .. Len(s) /\ \A n \in DOMAIN s : s[n] \in Objects
  BY LenProperties, ElementOfSeq
<1>3. IsFiniteSet(1 .. Len(s)) /\ Cardinality(1 .. Len(s)) = Len(s)
  <2>1. PICK n \in Nat : n = Len(s)
    BY <1>2
  <2>2. IsFiniteSet(1 .. n) /\ Cardinality(1 .. n) = n
    <3>1. 1 \in Int /\ n \in Int /\ (1 > n => n = 0) /\ n - 1 + 1 = n
      OBVIOUS
    <3> QED BY <3>1, FS_Interval
  <2> QED BY <2>1, <2>2
<1>4. \A x, y \in 1 .. Len(s) : s[x] = s[y] => x = y
  BY <1>2 DEF IsInjective
<1>5. Cardinality({s[n] : n \in 1 .. Len(s)}) = Len(s)
  BY <1>3, <1>4, CountOfImage
<1>6. {s[n] : n \in 1 .. Len(s)} \subseteq Objects
  BY <1>2
<1>7. Cardinality({s[n] : n \in 1 .. Len(s)}) <= Cardinality(Objects)
  BY <1>1, <1>6, FS_Subset
<1>8. Cardinality(Objects) \in Nat
  BY <1>1, FS_CardinalityType
<1> QED BY <1>2, <1>5, <1>7, <1>8

(* The cells f[0], f[1], ... lead to f[n]. *)
LeadsTo(f, n, mem) ==
  \A k \in 0 .. n - 1 : f[k] \in Remote!Cells /\ f[k + 1] = mem[f[k]] /\ f[k] # f[n]

(* The distance between cells of which the links between are known.        *)
LEMMA RemoteDistance ==
  ASSUME NEW mem, NEW n \in Nat, n <= Cardinality(Objects), Cardinality(Objects) \in Nat, NEW f,
         LeadsTo(f, n, mem)
  PROVE  /\ Remote!Distance(mem, f[0], f[n]) = n
         /\ \A k \in 0 .. n : Remote!Node(mem, f[0], k) = f[k]
<1>1. PICK w : w = Walk(f[0], Remote!Cells, mem, 0)
  OBVIOUS
<1>2. \A k : Remote!Node(mem, f[0], k) = w[k]
  BY <1>1 DEF Remote!Node, Walk, Remote!nullptr
<1>3. \A k \in 0 .. n : w[k] = f[k]
  BY <1>1, WalkAlong DEF LeadsTo
<1>4. n \in Remote!Steps /\ \A k \in 0 .. n - 1 : k \in 0 .. n
  BY PartsCount DEF Remote!Steps
<1>5. n \in 0 .. n /\ w[n] = f[n] /\ \A k \in 0 .. n - 1 : w[k] # f[n]
  BY <1>3, <1>4 DEF LeadsTo
<1>6. ASSUME NEW m \in Remote!Steps, w[m] = f[n], \A k \in 0 .. m - 1 : w[k] # f[n] PROVE m = n
  <2>1. m \in Nat
    BY PartsCount DEF Remote!Steps
  <2>2. ~(m < n)
    <3>1. m < n => m \in 0 .. n - 1
      BY <2>1
    <3> QED BY <1>5, <1>6, <3>1
  <2>3. ~(n < m)
    <3>1. n < m => n \in 0 .. m - 1
      BY <2>1
    <3> QED BY <1>5, <1>6, <3>1
  <2> QED BY <2>1, <2>2, <2>3
<1>7. Remote!Distance(mem, f[0], f[n]) = n
  <2>1. \E m \in Remote!Steps : Remote!Node(mem, f[0], m) = f[n]
    BY <1>2, <1>4, <1>5
  <2>2. Remote!Distance(mem, f[0], f[n]) =
          CHOOSE m \in Remote!Steps : /\ Remote!Node(mem, f[0], m) = f[n]
                                      /\ \A k \in 0 .. m - 1 : Remote!Node(mem, f[0], k) # f[n]
    BY <2>1 DEF Remote!Distance
  <2> QED BY <1>2, <1>4, <1>5, <1>6, <2>2
<1> QED BY <1>2, <1>3, <1>7
(* The messages of a list of objects.                                      *)
Messages(s) == [k \in 1 .. Len(s) |-> Remote!Message(s[k])]

(* Who follows the links of a list, from its first node to its last, reads *)
(* its messages ...                                                        *)
LEMMA RemoteChain ==
  ASSUME NEW s \in Seq(Objects), s # <<>>, IsInjective(s), NEW mem,
         \A k \in 1 .. Len(s) - 1 : mem[s[k]] = s[k + 1]
  PROVE  Remote!Chain(mem, s[1], s[Len(s)]) = Messages(s)
<1>1. PICK n \in Nat : n = Len(s) - 1 /\ n + 1 = Len(s) /\ n <= Cardinality(Objects)
  <2>1. PICK l, c \in Nat : l = Len(s) /\ l # 0 /\ c = Cardinality(Objects) /\ l <= c
    BY EmptySeq, RemoteLength
  <2>2. l - 1 \in Nat /\ (l - 1) + 1 = l /\ l - 1 <= c
    BY <2>1
  <2> QED BY <2>1, <2>2
<1>2. DOMAIN s = 1 .. n + 1 /\ \A k \in 1 .. n + 1 : s[k] \in Objects
  BY <1>1, LenProperties, ElementOfSeq
<1> DEFINE f == [k \in 0 .. n |-> s[k + 1]]
<1>3. \A k \in 0 .. n : f[k] = s[k + 1]
  OBVIOUS
<1> HIDE DEF f
<1>4. f[0] = s[1] /\ f[n] = s[Len(s)]
  BY <1>1, <1>3
<1>5. ASSUME NEW k \in 0 .. n - 1
      PROVE  f[k] \in Remote!Cells /\ f[k + 1] = mem[f[k]] /\ f[k] # f[n]
  <2>1. k + 1 \in 1 .. n /\ k + 1 \in 1 .. n + 1 /\ k + 1 \in 0 .. n /\ k \in 0 .. n /\ n \in 0 .. n
        /\ n + 1 \in 1 .. n + 1 /\ k + 1 # n + 1
    OBVIOUS
  <2>2. f[k] = s[k + 1] /\ f[k + 1] = s[(k + 1) + 1] /\ f[n] = s[n + 1]
    BY <1>3, <2>1
  <2>3. mem[s[k + 1]] = s[(k + 1) + 1]
    BY <1>1, <2>1
  <2>4. s[k + 1] \in Objects /\ s[k + 1] # s[n + 1]
    BY <1>2, <2>1 DEF IsInjective
  <2> QED BY <2>2, <2>3, <2>4, RemoteMemory
<1>5a. LeadsTo(f, n, mem)
  BY <1>5 DEF LeadsTo
<1>6. Cardinality(Objects) \in Nat
  BY RemoteLength
<1>7. /\ Remote!Distance(mem, f[0], f[n]) = n
      /\ \A k \in 0 .. n : Remote!Node(mem, f[0], k) = f[k]
  BY <1>1, <1>5a, <1>6, RemoteDistance
<1>8. Remote!Distance(mem, s[1], s[Len(s)]) = n
  BY <1>4, <1>7
<1>9. \A k \in 1 .. Len(s) : Remote!Node(mem, s[1], k - 1) = s[k]
  <2> TAKE k \in 1 .. Len(s)
  <2>1. k - 1 \in 0 .. n /\ (k - 1) + 1 = k
    BY <1>1
  <2> QED BY <1>3, <1>4, <1>7, <2>1
<1> QED BY <1>1, <1>8, <1>9 DEF Remote!Chain, Messages

(* ... and comes from its dummy to its last node.                          *)
LEMMA RemoteReaches ==
  ASSUME NEW s \in Seq(Objects), IsInjective(s), NEW i \in Remote!RemoteSlots, NEW mem, NEW to,
         Chained(s, Remote!dummy(i), to, mem)
  PROVE  Remote!Distance(mem, Remote!dummy(i), to) = Len(s)
<1>1. PICK n \in Nat : n = Len(s) /\ n <= Cardinality(Objects)
  BY RemoteLength
<1>2. DOMAIN s = 1 .. n /\ \A k \in 1 .. n : s[k] \in Objects
  BY <1>1, LenProperties, ElementOfSeq
<1>3. s = <<>> <=> n = 0
  BY <1>1, EmptySeq
<1>4. PICK d : d = Remote!dummy(i) /\ d \in Remote!Cells /\ d \notin Objects
  BY RemoteMemory
<1> DEFINE f == [k \in 0 .. n |-> IF k = 0 THEN d ELSE s[k]]
<1>5. f[0] = d /\ \A k \in 1 .. n : f[k] = s[k]
  OBVIOUS
<1> HIDE DEF f
<1>6. f[n] = to
  <2>1. CASE n = 0
    BY <1>3, <1>4, <1>5, <2>1 DEF Chained
  <2>2. CASE n # 0
    <3>1. n \in 1 .. n
      BY <2>2
    <3> QED BY <1>1, <1>3, <1>5, <2>2, <3>1 DEF Chained
  <2> QED BY <2>1, <2>2
<1>7. ASSUME NEW k \in 0 .. n - 1
      PROVE  f[k] \in Remote!Cells /\ f[k + 1] = mem[f[k]] /\ f[k] # f[n]
  <2>1. n \in 1 .. n /\ n # 0 /\ k + 1 \in 1 .. n
    OBVIOUS
  <2>2. f[n] = s[n] /\ f[n] \in Objects /\ f[k + 1] = s[k + 1]
    BY <1>2, <1>5, <2>1
  <2>3. CASE k = 0
    BY <1>3, <1>4, <1>5, <2>1, <2>2, <2>3 DEF Chained
  <2>4. CASE k # 0
    <3>1. k \in 1 .. n - 1 /\ k \in 1 .. n /\ k # n
      BY <2>4
    <3>2. f[k] = s[k] /\ s[k] # s[n] /\ s[k] \in Objects
      BY <1>2, <1>5, <2>1, <3>1 DEF IsInjective
    <3>3. mem[s[k]] = s[k + 1]
      BY <1>1, <3>1 DEF Chained
    <3> QED BY <2>2, <3>2, <3>3, RemoteMemory
  <2> QED BY <2>3, <2>4
<1>7a. LeadsTo(f, n, mem)
  BY <1>7 DEF LeadsTo
<1>8. Cardinality(Objects) \in Nat
  BY RemoteLength
<1>9. Remote!Distance(mem, f[0], f[n]) = n
  BY <1>1, <1>7a, <1>8, RemoteDistance
<1> QED BY <1>1, <1>4, <1>5, <1>6, <1>9

(* The same for a list that ends with nullptr ...                          *)
LEMMA RemoteEnds ==
  ASSUME NEW q \in Seq(Objects), IsInjective(q), NEW mem, NEW first, Tailed(q, first, mem, 0)
  PROVE  /\ Remote!Distance(mem, first, 0) = Len(q)
         /\ \A k \in 1 .. Len(q) : Remote!Node(mem, first, k - 1) = q[k]
<1>1. PICK n \in Nat : n = Len(q) /\ n <= Cardinality(Objects)
  BY RemoteLength
<1>2. DOMAIN q = 1 .. n /\ \A k \in 1 .. n : q[k] \in Objects
  BY <1>1, LenProperties, ElementOfSeq
<1>3. q = <<>> <=> n = 0
  BY <1>1, EmptySeq
<1>4. 0 \notin Objects
  BY PartsConstants DEF Remote!RemoteListConstants, Remote!nullptr
<1> DEFINE f == [k \in 0 .. n |-> IF k = n THEN 0 ELSE q[k + 1]]
<1>5. f[n] = 0 /\ \A k \in 0 .. n - 1 : f[k] = q[k + 1]
  OBVIOUS
<1> HIDE DEF f
<1>6. f[0] = first
  <2>1. CASE n = 0
    BY <1>3, <1>5, <2>1 DEF Tailed
  <2>2. CASE n # 0
    <3>1. 0 \in 0 .. n - 1 /\ 0 + 1 = 1
      BY <2>2
    <3> QED BY <1>3, <1>5, <2>2, <3>1 DEF Tailed
  <2> QED BY <2>1, <2>2
<1>7. ASSUME NEW k \in 0 .. n - 1
      PROVE  f[k] \in Remote!Cells /\ f[k + 1] = mem[f[k]] /\ f[k] # f[n]
  <2>1. k + 1 \in 1 .. n /\ n # 0
    OBVIOUS
  <2>2. f[k] = q[k + 1] /\ f[k] \in Objects
    BY <1>2, <1>5, <2>1
  <2>3. ASSUME k + 1 = n PROVE f[k + 1] = mem[f[k]]
    <3>1. mem[q[n]] = 0
      BY <1>1, <1>3, <2>1 DEF Tailed
    <3> QED BY <1>5, <2>2, <2>3, <3>1
  <2>4. ASSUME k + 1 # n PROVE f[k + 1] = mem[f[k]]
    <3>1. k + 1 \in 1 .. n - 1 /\ k + 1 \in 0 .. n - 1
      BY <2>4
    <3>2. f[k + 1] = q[(k + 1) + 1]
      BY <1>5, <3>1
    <3>3. mem[q[k + 1]] = q[(k + 1) + 1]
      BY <1>1, <3>1 DEF Tailed
    <3> QED BY <2>2, <3>2, <3>3
  <2>5. f[k + 1] = mem[f[k]]
    BY <2>3, <2>4
  <2> QED BY <1>4, <1>5, <2>2, <2>5, RemoteMemory
<1>7a. LeadsTo(f, n, mem)
  BY <1>7 DEF LeadsTo
<1>8. Cardinality(Objects) \in Nat
  BY RemoteLength
<1>9. /\ Remote!Distance(mem, f[0], f[n]) = n
      /\ \A k \in 0 .. n : Remote!Node(mem, f[0], k) = f[k]
  BY <1>1, <1>7a, <1>8, RemoteDistance
<1>10. Remote!Distance(mem, first, 0) = n
  BY <1>5, <1>6, <1>9
<1>11. \A k \in 1 .. n : Remote!Node(mem, first, k - 1) = q[k]
  <2> TAKE k \in 1 .. n
  <2>1. k - 1 \in 0 .. n - 1 /\ k - 1 \in 0 .. n /\ (k - 1) + 1 = k
    OBVIOUS
  <2>2. f[k - 1] = q[(k - 1) + 1]
    BY <1>5, <2>1
  <2> QED BY <1>6, <1>9, <2>1, <2>2
<1> QED BY <1>1, <1>10, <1>11

(* ... as what is left of the own one does.                                *)
LEMMA RemoteRest ==
  ASSUME NEW q \in Seq(Objects), IsInjective(q), Tailed(q, r, next, 0)
  PROVE  Remote!Distance(next, r, Remote!nullptr) = Len(q) /\ Remote!Rest = Messages(q)
<1>1. /\ Remote!Distance(next, r, 0) = Len(q)
      /\ \A k \in 1 .. Len(q) : Remote!Node(next, r, k - 1) = q[k]
  BY RemoteEnds
<1> QED BY <1>1 DEF Remote!Rest, Remote!nullptr, Messages
-----------------------------------------------------------------------------
(* No object is twice in the lists L and what is left of the own one, q.   *)
NoneTwice(L, q) ==
  /\ IsInjective(q)
  /\ \A i \in Remote!RemoteSlots : IsInjective(L[i]) /\ Range(L[i]) \cap Range(q) = {}
  /\ \A i, j \in Remote!RemoteSlots : i # j => Range(L[i]) \cap Range(L[j]) = {}

RemoteLists == [Remote!RemoteSlots -> Seq(Objects)]

(* Each list leads from its dummy to its end. *)
AllChained(L, ends, links) ==
  \A i \in Remote!RemoteSlots : Chained(L[i], Remote!dummy(i), ends[i], links)

(* The links of the lists are those of L, and what is left of the own one  *)
(* is q: the objects in the memory of the remote_cache.                    *)
RemoteIs(L, q) ==
  /\ AllChained(L, last, next)
  /\ Tailed(q, r, next, 0)
  /\ NoneTwice(L, q)

RemoteTypes ==
  /\ next = [c \in Remote!Cells |-> next[c]]
  /\ value \in [Objects -> Nat]
  /\ last = [i \in Remote!RemoteSlots |-> last[i]]
  /\ shift \in Nat
  /\ pc = "idle" => r = 0
  /\ r # 0 => out = <<>>

RemoteIInv == RemoteTypes /\ \E L \in RemoteLists, q \in Seq(Objects) : RemoteIs(L, q)

(* Only the links of cells in D change.                                    *)
OnlyIn(links, new, D) == \A x \in Remote!Cells : new[x] # links[x] => x \in D

(* No other list than that of slot i has an element of D.                  *)
OthersWithout(L, i, D) ==
  \A j \in Remote!RemoteSlots : j # i => D \cap Range(L[j]) = {}

(* What is in a list is an object, not a dummy.                            *)
LEMMA RemoteRange ==
  ASSUME NEW s \in Seq(Objects)
  PROVE  /\ Range(s) \subseteq Objects /\ Range(s) \subseteq Remote!Cells
         /\ \A i \in Remote!RemoteSlots : Remote!dummy(i) \notin Range(s)
<1>1. \A n \in DOMAIN s : s[n] \in Objects
  BY LenProperties, ElementOfSeq
<1> QED BY <1>1, RemoteMemory DEF Range

(* The end of a list is its dummy or one of its objects.                   *)
LEMMA RemoteEnd ==
  ASSUME NEW L \in RemoteLists, NEW q, NoneTwice(L, q), NEW ends, NEW links,
         AllChained(L, ends, links), NEW i \in Remote!RemoteSlots
  PROVE  /\ ends[i] \in {Remote!dummy(i)} \cup Range(L[i])
         /\ L[i] # <<>> => Remote!dummy(i) # ends[i]
         /\ L[i] = <<>> => Remote!dummy(i) = ends[i]
<1>1. L[i] \in Seq(Objects) /\ IsInjective(L[i]) /\ Chained(L[i], Remote!dummy(i), ends[i], links)
  BY DEF RemoteLists, NoneTwice, AllChained
<1>2. Remote!dummy(i) \notin Range(L[i])
  BY <1>1, RemoteRange
<1>3. /\ ends[i] \in {Remote!dummy(i)} \cup Range(L[i])
      /\ L[i] # <<>> => Remote!dummy(i) # ends[i]
  BY <1>1, <1>2, ChainedBefore
<1> QED BY <1>1, <1>3 DEF Chained

(* What disturbs links of one list leaves the others.                      *)
LEMMA RemoteOthers ==
  ASSUME NEW L \in RemoteLists, NEW q, NoneTwice(L, q), NEW ends, NEW links, NEW new,
         AllChained(L, ends, links), NEW i \in Remote!RemoteSlots, NEW D,
         OthersWithout(L, i, D), OnlyIn(links, new, D \cup {ends[i]}), D \subseteq Objects
  PROVE  \A j \in Remote!RemoteSlots : j # i => Chained(L[j], Remote!dummy(j), ends[j], new)
<1> SUFFICES ASSUME NEW j \in Remote!RemoteSlots, j # i
             PROVE  Chained(L[j], Remote!dummy(j), ends[j], new)
  OBVIOUS
<1>1. PICK s, d, to : s = L[j] /\ d = Remote!dummy(j) /\ to = ends[j]
  OBVIOUS
<1>2. s \in Seq(Objects) /\ IsInjective(s) /\ Chained(s, d, to, links)
  BY <1>1 DEF RemoteLists, NoneTwice, AllChained
<1>3. /\ Range(s) \subseteq Remote!Cells /\ d \in Remote!Cells
      /\ d \notin Range(s) /\ d \notin Objects /\ d # Remote!dummy(i)
  BY <1>1, <1>2, RemoteRange, RemoteMemory
<1>4. ends[i] \notin Range(s) /\ ends[i] # d
  <2>1. ends[i] \in {Remote!dummy(i)} \cup Range(L[i])
    BY RemoteEnd
  <2>2. Range(L[i]) \cap Range(s) = {} /\ Remote!dummy(i) \notin Range(s)
    BY <1>1, <1>2, RemoteRange DEF NoneTwice
  <2>3. d \notin Range(L[i])
    <3>1. L[i] \in Seq(Objects)
      BY DEF RemoteLists
    <3> QED BY <1>1, <3>1, RemoteRange
  <2> QED BY <1>3, <2>1, <2>2, <2>3
<1>5. SameBut(links, new, to, {d} \cup Range(s))
  BY <1>1, <1>3, <1>4 DEF OthersWithout, OnlyIn, SameBut
<1>6. Chained(s, d, to, new)
  BY <1>2, <1>3, <1>5, ChainedSame
<1> QED BY <1>1, <1>6

(* An object is put behind a list.                                         *)
LEMMA RemotePuts ==
  ASSUME NEW L \in RemoteLists, NEW q \in Seq(Objects), NoneTwice(L, q),
         NEW ends, NEW links, NEW new, AllChained(L, ends, links),
         ends = [j \in Remote!RemoteSlots |-> ends[j]],
         NEW i \in Remote!RemoteSlots, NEW o \in Objects,
         \A j \in Remote!RemoteSlots : o \notin Range(L[j]),
         OnlyIn(links, new, {o} \cup {ends[i]}),
         new[ends[i]] = o, o \notin Range(q),
         NEW M, M = [L EXCEPT ![i] = Append(L[i], o)]
  PROVE  M \in RemoteLists /\ AllChained(M, [ends EXCEPT ![i] = o], new) /\ NoneTwice(M, q)
<1>1. PICK s, d, to : s = L[i] /\ d = Remote!dummy(i) /\ to = ends[i]
  OBVIOUS
<1>2. s \in Seq(Objects) /\ IsInjective(s) /\ Chained(s, d, to, links)
  BY <1>1 DEF RemoteLists, NoneTwice, AllChained
<1>3. Range(s) \subseteq Remote!Cells /\ d \in Remote!Cells /\ d \notin Range(s) /\ d # o
  BY <1>1, <1>2, RemoteRange, RemoteMemory
<1>4. o \notin Range(s)
  BY <1>1
<1>5. /\ Append(s, o) \in Seq(Objects) /\ Range(Append(s, o)) = Range(s) \cup {o}
      /\ IsInjective(Append(s, o))
  BY <1>2, <1>4, SeqAppend, InjectiveAppend
<1>6. Chained(Append(s, o), d, o, new)
  <2>1. SameBut(links, new, to, {d} \cup Range(s))
    BY <1>1, <1>3, <1>4 DEF OnlyIn, SameBut
  <2>2. new[to] = o
    BY <1>1
  <2> QED BY <1>2, <1>3, <2>1, <2>2, ChainedAppend
<1>7. \A j \in Remote!RemoteSlots : j # i => Chained(L[j], Remote!dummy(j), ends[j], new)
  <2>1. PICK D : D = {o}
    OBVIOUS
  <2>2. OthersWithout(L, i, D) /\ OnlyIn(links, new, D \cup {ends[i]}) /\ D \subseteq Objects
    BY <2>1 DEF OthersWithout
  <2> QED BY <2>2, RemoteOthers
<1>8. /\ M \in RemoteLists /\ M[i] = Append(s, o)
      /\ \A j \in Remote!RemoteSlots : j # i => M[j] = L[j]
  BY <1>1, <1>5 DEF RemoteLists
<1>9. AllChained(M, [ends EXCEPT ![i] = o], new)
  BY <1>1, <1>6, <1>7, <1>8 DEF AllChained
<1>10. NoneTwice(M, q)
  <2>1. /\ Range(M[i]) = Range(L[i]) \cup {o}
        /\ \A j \in Remote!RemoteSlots : j # i => Range(M[j]) = Range(L[j])
    BY <1>1, <1>5, <1>8
  <2>2. \A j \in Remote!RemoteSlots : IsInjective(M[j])
    BY <1>5, <1>8 DEF NoneTwice
  <2>3. \A j \in Remote!RemoteSlots : Range(M[j]) \cap Range(q) = {}
    BY <2>1 DEF NoneTwice
  <2>4. ASSUME NEW j \in Remote!RemoteSlots, NEW k \in Remote!RemoteSlots, j # k
        PROVE  Range(M[j]) \cap Range(M[k]) = {}
    <3>1. Range(L[j]) \cap Range(L[k]) = {} /\ o \notin Range(L[j]) /\ o \notin Range(L[k])
      BY <2>4 DEF NoneTwice
    <3> QED BY <2>1, <2>4, <3>1
  <2> QED BY <2>2, <2>3, <2>4 DEF NoneTwice
<1> QED BY <1>8, <1>9, <1>10

(* A list is emptied.                                                      *)
LEMMA RemoteEmpties ==
  ASSUME NEW L \in RemoteLists, NEW q \in Seq(Objects), NoneTwice(L, q),
         NEW ends, NEW links, NEW new, AllChained(L, ends, links),
         ends = [j \in Remote!RemoteSlots |-> ends[j]],
         NEW i \in Remote!RemoteSlots,
         OnlyIn(links, new, Range(L[i]) \cup {ends[i]}),
         NEW M, M = [L EXCEPT ![i] = <<>>]
  PROVE  /\ M \in RemoteLists /\ AllChained(M, [ends EXCEPT ![i] = Remote!dummy(i)], new)
         /\ NoneTwice(M, q)
         /\ \A j \in Remote!RemoteSlots : Range(M[j]) \cap Range(L[i]) = {}
<1>1. <<>> \in Seq(Objects) /\ Range(<<>>) = {} /\ IsInjective(<<>>)
  BY EmptySeq DEF Range, IsInjective
<1>2. \A d, links_ : Chained(<<>>, d, d, links_)
  BY EmptySeq DEF Chained
<1>3. /\ M \in RemoteLists /\ M[i] = <<>>
      /\ \A j \in Remote!RemoteSlots : j # i => M[j] = L[j]
  BY <1>1 DEF RemoteLists
<1>4. L[i] \in Seq(Objects)
  BY DEF RemoteLists
<1>5. \A j \in Remote!RemoteSlots : j # i => Chained(L[j], Remote!dummy(j), ends[j], new)
  <2>1. PICK D : D = Range(L[i])
    OBVIOUS
  <2>2. OthersWithout(L, i, D) /\ OnlyIn(links, new, D \cup {ends[i]}) /\ D \subseteq Objects
    BY <1>4, <2>1, RemoteRange DEF NoneTwice, OthersWithout
  <2> QED BY <2>2, RemoteOthers
<1>6. AllChained(M, [ends EXCEPT ![i] = Remote!dummy(i)], new)
  BY <1>2, <1>3, <1>5 DEF AllChained
<1>7. NoneTwice(M, q) /\ \A j \in Remote!RemoteSlots : Range(M[j]) \cap Range(L[i]) = {}
  BY <1>1, <1>3 DEF NoneTwice
<1> QED BY <1>3, <1>6, <1>7
-----------------------------------------------------------------------------
(* Any id has a slot at any shift.                                         *)
LEMMA RemoteSlotAt ==
  ASSUME NEW id \in Nat, NEW bits \in Nat
  PROVE  Remote!SlotAt(id, bits) \in Remote!RemoteSlots
<1>1. RemoteSlotBits \in Nat
  BY PartsConstants DEF Remote!RemoteListConstants
<1>2. PICK p, n \in Nat : p = 2 ^ bits /\ p > 0 /\ n = 2 ^ RemoteSlotBits /\ n > 0
  BY <1>1, Pow2Pos
<1>3. id \div p \in Nat
  BY <1>2, QuotRem
<1>4. (id \div p) % n \in 0 .. n - 1
  <2>1. PICK x \in Nat : x = id \div p
    BY <1>3
  <2>2. x % n \in Nat /\ x % n < n
    BY <1>2, QuotRem
  <2>3. x % n \in 0 .. n - 1
    BY <1>2, <2>2
  <2> QED BY <2>1, <2>3
<1> QED BY <1>2, <1>4 DEF Remote!SlotAt, Remote!RemoteSlots

(* Whatever the word of an object was: what is read from it is what has    *)
(* been written.                                                           *)
LEMMA RemoteWord ==
  ASSUME NEW word \in {0, 2 ^ WordBits - 1}, NEW id \in Ids, NEW sc \in Classes,
         NEW v, v = Remote!set_target_id(Remote!set_sizeclass(word, sc), id)
  PROVE  v \in Nat /\ Remote!target_id(v) = id /\ Remote!sizeclass(v) = sc
<1>1. PICK s, w \in Nat : s = SizeclassShift /\ w = WordBits /\ w - s \in Nat /\ s + (w - s) = w
  BY PartsConstants DEF Remote!RemoteListConstants
<1>2. PICK p, h, m \in Nat : /\ p = 2 ^ s /\ p > 0 /\ h = 2 ^ (w - s) /\ h > 0
                             /\ m = 2 ^ w /\ m > 0 /\ m = p * h
  <2>1. 2 ^ (s + (w - s)) = 2 ^ s * 2 ^ (w - s)
    BY <1>1, Pow2Add
  <2> QED BY <1>1, <2>1, Pow2Pos
<1>3. id \in Nat /\ id < p
  <2>1. id \in 0 .. p - 1
    BY <1>1, <1>2, PartsConstants DEF Remote!RemoteListConstants
  <2> QED BY <1>2, <2>1
<1>4. sc \in Nat /\ sc < h /\ sc < 256
  <2>1. sc \in 0 .. h - 1 /\ sc \in 0 .. 256 - 1
    BY <1>1, <1>2, PowEight, PartsConstants DEF Remote!RemoteListConstants
  <2> QED BY <1>2, <2>1
<1>5. word \in Nat
  BY <1>1, <1>2
<1>6. PICK t \in Nat : t = word % p /\ t < p
  BY <1>2, <1>5, QuotRem
<1>7. PICK x \in Nat : x = sc * p /\ x < m
  <2>1. sc * p + p <= h * p
    BY <1>2, <1>4, MultMono
  <2>2. sc * p \in Nat /\ h * p = m
    BY <1>2, <1>4
  <2> QED BY <1>2, <2>1, <2>2
<1>8. x % m = x
  <2>1. (0 * m + x) % m = x
    BY <1>2, <1>7, RemOfSum
  <2>2. 0 * m + x = x
    BY <1>2, <1>7
  <2> QED BY <2>1, <2>2
<1>9. Remote!set_sizeclass(word, sc) = t + x
  BY <1>1, <1>2, <1>6, <1>7, <1>8 DEF Remote!set_sizeclass, Remote!target_id
<1>10. Remote!target_id(t + x) = t
  <2>1. (sc * p + t) % p = t
    BY <1>2, <1>4, <1>6, RemOfSum
  <2>2. sc * p + t = t + x
    BY <1>6, <1>7
  <2> QED BY <1>1, <1>2, <2>1, <2>2 DEF Remote!target_id
<1>11. v = x + id
  <2>1. v = id + ((t + x) - t)
    BY <1>9, <1>10 DEF Remote!set_target_id
  <2> QED BY <1>3, <1>6, <1>7, <2>1
<1>12. v % p = id /\ v \div p = sc
  <2>1. (sc * p + id) % p = id /\ (sc * p + id) \div p = sc
    BY <1>2, <1>3, <1>4, RemOfSum
  <2> QED BY <1>7, <1>11, <2>1
<1>13. sc % 256 = sc
  BY <1>4
<1>14. 2 ^ SizeclassShift = p /\ 2 ^ 8 = 256
  BY <1>1, <1>2, PowEight
<1> QED BY <1>3, <1>7, <1>11, <1>12, <1>13, <1>14 DEF Remote!target_id, Remote!sizeclass

(* What the specification says of the memory of lists L and q.             *)
LEMMA RemoteKnown ==
  ASSUME NEW L \in RemoteLists, NEW q \in Seq(Objects), RemoteIs(L, q)
  PROVE  /\ \A i \in Remote!RemoteSlots :
              /\ Remote!ChainOf(i) = Messages(L[i])
              /\ Remote!empty(i) <=> L[i] = <<>>
              /\ Remote!Distance(next, Remote!dummy(i), last[i]) = Len(L[i])
         /\ Remote!Rest = Messages(q) /\ Remote!Distance(next, r, Remote!nullptr) = Len(q)
<1>1. NoneTwice(L, q) /\ AllChained(L, last, next) /\ Tailed(q, r, next, 0)
  BY DEF RemoteIs
<1>2. ASSUME NEW i \in Remote!RemoteSlots
      PROVE  /\ Remote!empty(i) <=> L[i] = <<>>
             /\ Remote!Distance(next, Remote!dummy(i), last[i]) = Len(L[i])
             /\ L[i] \in Seq(Objects) /\ IsInjective(L[i])
             /\ Chained(L[i], Remote!dummy(i), last[i], next)
  <2>1. L[i] \in Seq(Objects) /\ IsInjective(L[i])
        /\ Chained(L[i], Remote!dummy(i), last[i], next)
    BY <1>1 DEF RemoteLists, NoneTwice, AllChained
  <2>2. /\ L[i] # <<>> => Remote!dummy(i) # last[i]
        /\ L[i] = <<>> => Remote!dummy(i) = last[i]
    BY <1>1, RemoteEnd
  <2> QED BY <2>1, <2>2, RemoteReaches DEF Remote!empty
<1>3. Messages(<<>>) = <<>>
  BY EmptySeq DEF Messages
<1>4. ASSUME NEW i \in Remote!RemoteSlots PROVE Remote!ChainOf(i) = Messages(L[i])
  <2>1. CASE L[i] = <<>>
    BY <1>2, <1>3, <2>1 DEF Remote!ChainOf
  <2>2. CASE L[i] # <<>>
    <3>1. PICK s : s = L[i]
      OBVIOUS
    <3>2. /\ s # <<>> /\ s \in Seq(Objects) /\ IsInjective(s)
          /\ next[Remote!dummy(i)] = s[1] /\ last[i] = s[Len(s)]
          /\ \A k \in 1 .. Len(s) - 1 : next[s[k]] = s[k + 1]
      BY <1>2, <2>2, <3>1 DEF Chained
    <3>3. Remote!Chain(next, s[1], s[Len(s)]) = Messages(s)
      BY <3>2, RemoteChain
    <3>4. Remote!ChainOf(i) = Remote!Chain(next, next[Remote!dummy(i)], last[i])
      BY <1>2, <2>2 DEF Remote!ChainOf
    <3> QED BY <3>1, <3>2, <3>3, <3>4
  <2> QED BY <2>1, <2>2
<1>5. Remote!Rest = Messages(q) /\ Remote!Distance(next, r, Remote!nullptr) = Len(q)
  BY <1>1, RemoteRest DEF NoneTwice
<1> QED BY <1>2, <1>4, <1>5
-----------------------------------------------------------------------------
(* Nothing is in the lists initially.                                      *)
LEMMA RemoteInitially == Remote!Init => RemoteIInv
<1> SUFFICES ASSUME Remote!Init PROVE RemoteIInv
  OBVIOUS
<1>1. PICK L : L = [i \in Remote!RemoteSlots |-> <<>>]
  OBVIOUS
<1>2. L \in RemoteLists /\ <<>> \in Seq(Objects)
  BY <1>1, EmptySeq DEF RemoteLists
<1>3. NoneTwice(L, <<>>)
  BY <1>1 DEF NoneTwice, Range, IsInjective
<1>4. AllChained(L, last, next) /\ Tailed(<<>>, r, next, 0)
  BY <1>1, EmptySeq DEF Remote!Init, Remote!nullptr, AllChained, Chained, Tailed
<1>5. RemoteTypes
  BY DEF Remote!Init, Remote!nullptr, RemoteTypes
<1> QED BY <1>2, <1>3, <1>4, <1>5 DEF RemoteIInv, RemoteIs

(* Without a rest, what is linked is what the lists have.                  *)
LEMMA RemoteNoRest ==
  ASSUME NEW L \in RemoteLists, NEW q \in Seq(Objects), RemoteIs(L, q)
  PROVE  r = 0 <=> q = <<>>
<1>1. q = <<>> => r = 0
  BY DEF RemoteIs, Tailed
<1>2. ASSUME q # <<>> PROVE r # 0
  <2>1. r = q[1] /\ 1 \in 1 .. Len(q)
    BY <1>2, EmptySeq DEF RemoteIs, Tailed
  <2>2. r \in Objects
    BY <2>1, ElementOfSeq
  <2> QED BY <2>2, PartsConstants DEF Remote!RemoteListConstants, Remote!nullptr
<1> QED BY <1>1, <1>2

(* What waits is what is in the lists.                                     *)
LEMMA RemoteWaiting ==
  ASSUME NEW L \in RemoteLists, NEW q \in Seq(Objects), RemoteIs(L, q),
         NEW i \in Remote!RemoteSlots, NEW o \in Range(L[i])
  PROVE  o \in Remote!Waiting
<1>1. L[i] \in Seq(Objects)
  BY DEF RemoteLists
<1>2. PICK s : s = Messages(L[i]) /\ Remote!ChainOf(i) = s
  BY RemoteKnown
<1>3. PICK n \in 1 .. Len(L[i]) : o = L[i][n]
  BY <1>1, LenProperties DEF Range
<1>4. s[n] = <<o, Remote!target_id(value[o]), Remote!sizeclass(value[o])>> /\ n \in DOMAIN s
  BY <1>2, <1>3 DEF Messages, Remote!Message
<1>5. s[n][1] = o
  BY <1>4
<1>6. s[n] \in UNION {{Remote!ChainOf(j)[k] : k \in DOMAIN Remote!ChainOf(j)} :
                        j \in Remote!RemoteSlots}
  BY <1>2, <1>4
<1> QED BY <1>5, <1>6 DEF Remote!Waiting

(* An object that waits nowhere is put behind a list.                      *)
LEMMA RemoteEnqueues ==
  ASSUME RemoteTypes, NEW L \in RemoteLists, NEW q \in Seq(Objects), RemoteIs(L, q),
         NEW o \in Objects, NEW id \in Ids, NEW sc \in Classes, Remote!Enqueue(o, id, sc)
  PROVE  \E M \in RemoteLists :
           /\ RemoteTypes' /\ RemoteIs(M, q)' /\ q = <<>>
           /\ Remote!SlotAt(id, 0) \in Remote!RemoteSlots
           /\ M = [L EXCEPT ![Remote!SlotAt(id, 0)] = Append(L[Remote!SlotAt(id, 0)], o)]
           /\ \A j \in Remote!RemoteSlots : o \notin Range(L[j])
<1>1. q = <<>> /\ r = 0
  BY RemoteNoRest DEF Remote!Enqueue, RemoteTypes
<1>2. \A j \in Remote!RemoteSlots : o \notin Range(L[j])
  BY RemoteWaiting DEF Remote!Enqueue
<1>3. PICK i \in Remote!RemoteSlots : i = Remote!SlotAt(id, 0)
  <2>1. id \in Nat /\ 0 \in Nat
    BY PartsConstants DEF Remote!RemoteListConstants
  <2> QED BY <2>1, RemoteSlotAt
<1>4. PICK word \in {0, 2 ^ WordBits - 1}, link \in Objects \cup {0} :
         /\ value' = [value EXCEPT ![o] = Remote!set_target_id(Remote!set_sizeclass(word, sc), id)]
         /\ next' = [[next EXCEPT ![o] = link] EXCEPT ![last[i]] = o]
  BY <1>3 DEF Remote!Enqueue, Remote!insert, Remote!nullptr
<1>5. last' = [last EXCEPT ![i] = o] /\ pc' = pc /\ shift' = shift /\ r' = r
  BY <1>3 DEF Remote!Enqueue
<1>6. PICK M : M = [L EXCEPT ![i] = Append(L[i], o)]
  OBVIOUS
<1>7. PICK ends, links, new : ends = last /\ links = next /\ new = next'
  OBVIOUS
<1>8. /\ NoneTwice(L, q) /\ AllChained(L, ends, links)
      /\ ends = [j \in Remote!RemoteSlots |-> ends[j]]
  BY <1>7 DEF RemoteIs, RemoteTypes
<1>9. links = [c \in Remote!Cells |-> links[c]] /\ new = [c \in Remote!Cells |-> new[c]]
  BY <1>4, <1>7 DEF RemoteTypes
<1>10. ends[i] \in Remote!Cells
  <2>1. ends[i] \in {Remote!dummy(i)} \cup Range(L[i])
    BY <1>8, RemoteEnd
  <2>2. L[i] \in Seq(Objects)
    BY DEF RemoteLists
  <2> QED BY <2>1, <2>2, RemoteRange, RemoteMemory
<1>11. new[ends[i]] = o /\ OnlyIn(links, new, {o} \cup {ends[i]})
  BY <1>4, <1>7, <1>9, <1>10 DEF OnlyIn
<1>12. o \notin Range(q)
  BY <1>1 DEF Range
<1>13. M \in RemoteLists /\ AllChained(M, [ends EXCEPT ![i] = o], new) /\ NoneTwice(M, q)
  BY <1>2, <1>6, <1>8, <1>11, <1>12, RemotePuts
<1>14. RemoteIs(M, q)'
  BY <1>1, <1>5, <1>7, <1>13 DEF RemoteIs, Tailed
<1>15. RemoteTypes'
  <2>1. Remote!set_target_id(Remote!set_sizeclass(word, sc), id) \in Nat
    BY <1>4, RemoteWord
  <2>2. value' \in [Objects -> Nat]
    BY <1>4, <2>1 DEF RemoteTypes
  <2> QED BY <1>1, <1>5, <1>7, <1>9, <2>2 DEF RemoteTypes
<1> QED BY <1>1, <1>2, <1>3, <1>6, <1>13, <1>14, <1>15
(* The links of a list that ends: the queue or post follows them.          *)
LEMMA RemoteCleared ==
  ASSUME NEW L \in RemoteLists, NEW q \in Seq(Objects), RemoteTypes, RemoteIs(L, q),
         NEW i \in Remote!RemoteSlots, ~Remote!empty(i),
         NEW s, s = L[i], NEW mem, mem = Remote!clear(i)
  PROVE  /\ s \in Seq(Objects) /\ s # <<>> /\ IsInjective(s)
         /\ mem = [c \in Remote!Cells |-> mem[c]] /\ OnlyIn(next, mem, {last[i]})
         /\ Tailed(s, mem[Remote!dummy(i)], mem, 0) /\ last[i] = s[Len(s)]
<1>1. PICK d, to, links : d = Remote!dummy(i) /\ to = last[i] /\ links = next
  OBVIOUS
<1>2. /\ s \in Seq(Objects) /\ IsInjective(s) /\ Chained(s, d, to, links) /\ s # <<>>
      /\ to \in {d} \cup Range(s)
  <2>1. s \in Seq(Objects) /\ IsInjective(s) /\ Chained(s, d, to, links)
    BY <1>1 DEF RemoteLists, RemoteIs, NoneTwice, AllChained
  <2>2. s # <<>>
    BY RemoteKnown
  <2>3. NoneTwice(L, q) /\ AllChained(L, last, next)
    BY DEF RemoteIs
  <2>4. to \in {d} \cup Range(s)
    BY <1>1, <2>3, RemoteEnd
  <2> QED BY <2>1, <2>2, <2>4
<1>3. d \notin Range(s) /\ d \in Remote!Cells /\ Range(s) \subseteq Remote!Cells
  BY <1>1, <1>2, RemoteRange, RemoteMemory
<1>4. links = [c \in Remote!Cells |-> links[c]] /\ mem = [links EXCEPT ![to] = 0]
  BY <1>1 DEF RemoteTypes, Remote!clear, Remote!nullptr
<1>5. /\ mem = [c \in Remote!Cells |-> mem[c]] /\ mem[to] = 0
      /\ OnlyIn(links, mem, {to}) /\ SameBut(links, mem, to, {d} \cup Range(s))
  BY <1>2, <1>3, <1>4 DEF OnlyIn, SameBut
<1>6. Tailed(s, mem[d], mem, 0)
  BY <1>2, <1>3, <1>5, ChainedTake
<1>7. to = s[Len(s)]
  BY <1>2 DEF Chained
<1> QED BY <1>1, <1>2, <1>5, <1>6, <1>7

(* Only slots of others that have messages are pushed, the lowest first.   *)
LEMMA RemotePushes ==
  ASSUME RemoteTypes, NEW L \in RemoteLists, NEW q \in Seq(Objects), RemoteIs(L, q), Remote!Push
  PROVE  \E i \in Remote!OtherSlots, M \in RemoteLists :
           /\ \A j \in Remote!OtherSlots : i <= j
           /\ out' = Messages(L[i])
           /\ RemoteTypes' /\ RemoteIs(M, q)' /\ q = <<>>
           /\ M = [L EXCEPT ![i] = <<>>]
           /\ \A j \in Remote!RemoteSlots : \A o \in Range(M[j]) : value'[o] = value[o]
<1>1. q = <<>> /\ r = 0
  BY RemoteNoRest DEF Remote!Push, Remote!nullptr
<1>2. PICK i \in Remote!OtherSlots :
        /\ \A j \in Remote!OtherSlots : i <= j
        /\ i = CHOOSE x \in Remote!OtherSlots : \A j \in Remote!OtherSlots : x <= j
  <2>1. Remote!OtherSlots \in SUBSET Nat /\ Remote!OtherSlots # {}
    BY RemoteMemory DEF Remote!Push, Remote!OtherSlots
  <2>2. \E x \in Remote!OtherSlots : \A j \in Remote!OtherSlots : x <= j
    BY <2>1, NatLeast
  <2> QED BY <2>2
<1>3. i \in Remote!RemoteSlots /\ ~Remote!empty(i)
  BY DEF Remote!OtherSlots
<1>4. PICK s, mem, to : s = L[i] /\ mem = Remote!clear(i) /\ to = last[i]
  OBVIOUS
<1>5. /\ s \in Seq(Objects) /\ s # <<>> /\ IsInjective(s)
      /\ mem = [c \in Remote!Cells |-> mem[c]] /\ OnlyIn(next, mem, {to})
      /\ Tailed(s, mem[Remote!dummy(i)], mem, 0) /\ to = s[Len(s)]
  BY <1>3, <1>4, RemoteCleared
<1>6. Remote!Chain(mem, mem[Remote!dummy(i)], to) = Messages(s)
  <2>1. /\ mem[Remote!dummy(i)] = s[1]
        /\ \A k \in 1 .. Len(s) - 1 : mem[s[k]] = s[k + 1]
    BY <1>5 DEF Tailed
  <2>2. Remote!Chain(mem, s[1], s[Len(s)]) = Messages(s)
    BY <1>5, <2>1, RemoteChain
  <2> QED BY <1>5, <2>1, <2>2
<1>7. PICK given : given = {Messages(s)[n][1] : n \in DOMAIN Messages(s)}
  OBVIOUS
<1>8. given = Range(s)
  <2>1. DOMAIN Messages(s) = 1 .. Len(s) /\ DOMAIN s = 1 .. Len(s)
        /\ \A n \in 1 .. Len(s) : Messages(s)[n] = Remote!Message(s[n])
    BY <1>5, LenProperties DEF Messages
  <2>2. \A o : Remote!Message(o)[1] = o
    BY DEF Remote!Message
  <2>3. \A n \in 1 .. Len(s) : Messages(s)[n][1] = s[n]
    BY <2>1, <2>2
  <2> QED BY <1>7, <2>1, <2>3 DEF Range
<1>9. /\ out' = Remote!Chain(mem, mem[Remote!dummy(i)], to)
      /\ next' = [c \in Remote!Cells |->
                    IF c \in {out'[n][1] : n \in DOMAIN out'} THEN 0 ELSE mem[c]]
      /\ value' = [o \in Objects |->
                     IF o \in {out'[n][1] : n \in DOMAIN out'} THEN 0 ELSE value[o]]
      /\ last' = [last EXCEPT ![i] = Remote!dummy(i)]
      /\ pc' = pc /\ shift' = shift /\ r' = r
  <2> DEFINE slot == CHOOSE x \in Remote!OtherSlots : \A j \in Remote!OtherSlots : x <= j
             chain == Remote!Chain(Remote!clear(slot), Remote!clear(slot)[Remote!dummy(slot)],
                                   last[slot])
  <2>1. /\ out' = chain
        /\ next' = [c \in Remote!Cells |->
                      IF c \in {chain[n][1] : n \in DOMAIN chain} THEN Remote!nullptr
                      ELSE Remote!clear(slot)[c]]
        /\ value' = [o \in Objects |->
                       IF o \in {chain[n][1] : n \in DOMAIN chain} THEN 0 ELSE value[o]]
        /\ last' = [last EXCEPT ![slot] = Remote!dummy(slot)]
        /\ pc' = pc /\ shift' = shift /\ r' = r
    BY Zenon DEF Remote!Push
  <2> HIDE DEF chain, slot
  <2>2. slot = i
    BY <1>2 DEF slot
  <2>3. Remote!nullptr = 0
    BY DEF Remote!nullptr
  <2>4. chain = Remote!Chain(mem, mem[Remote!dummy(i)], to)
    BY <1>4, <2>2 DEF chain
  <2> QED BY <1>4, <2>1, <2>2, <2>3, <2>4
<1>10. /\ out' = Messages(s)
      /\ next' = [c \in Remote!Cells |-> IF c \in given THEN 0 ELSE mem[c]]
      /\ value' = [o \in Objects |-> IF o \in given THEN 0 ELSE value[o]]
      /\ last' = [last EXCEPT ![i] = Remote!dummy(i)]
      /\ pc' = pc /\ shift' = shift /\ r' = r
  BY <1>6, <1>7, <1>9
<1>11. PICK M : M = [L EXCEPT ![i] = <<>>]
  OBVIOUS
<1>12. PICK ends, links, new : ends = last /\ links = next /\ new = next'
  OBVIOUS
<1>13. /\ NoneTwice(L, q) /\ AllChained(L, ends, links)
       /\ ends = [j \in Remote!RemoteSlots |-> ends[j]]
  BY <1>12 DEF RemoteIs, RemoteTypes
<1>14. OnlyIn(links, new, Range(L[i]) \cup {ends[i]})
  BY <1>4, <1>5, <1>8, <1>10, <1>12 DEF OnlyIn
<1>15. /\ M \in RemoteLists /\ AllChained(M, [ends EXCEPT ![i] = Remote!dummy(i)], new)
       /\ NoneTwice(M, q) /\ \A j \in Remote!RemoteSlots : Range(M[j]) \cap Range(L[i]) = {}
  BY <1>3, <1>11, <1>13, <1>14, RemoteEmpties
<1>16. RemoteIs(M, q)'
  BY <1>1, <1>10, <1>12, <1>15 DEF RemoteIs, Tailed
<1>17. RemoteTypes'
  BY <1>1, <1>10 DEF RemoteTypes
<1>18. ASSUME NEW j \in Remote!RemoteSlots, NEW o \in Range(M[j]) PROVE value'[o] = value[o]
  <2>1. M[j] \in Seq(Objects)
    BY <1>15 DEF RemoteLists
  <2>2. o \in Objects /\ o \notin given
    BY <1>4, <1>8, <1>15, <2>1, RemoteRange
  <2> QED BY <1>10, <2>2
<1> QED BY <1>1, <1>2, <1>4, <1>10, <1>11, <1>15, <1>16, <1>17, <1>18

(* The own list is taken apart.                                            *)
LEMMA RemoteTakesOwn ==
  ASSUME RemoteTypes, NEW L \in RemoteLists, NEW q \in Seq(Objects), RemoteIs(L, q),
         Remote!TakeOwn
  PROVE  \E i \in Remote!RemoteSlots, M \in RemoteLists, p \in Seq(Objects) :
           /\ i = Remote!my_slot_index /\ p = L[i] /\ p # <<>>
           /\ RemoteTypes' /\ RemoteIs(M, p)' /\ q = <<>>
           /\ M = [L EXCEPT ![i] = <<>>]
<1>1. q = <<>> /\ r = 0
  BY RemoteNoRest DEF Remote!TakeOwn, Remote!nullptr
<1>2. PICK i \in Remote!RemoteSlots : i = Remote!my_slot_index
  <2>1. MyId \in Nat /\ shift \in Nat
    BY PartsConstants DEF Remote!RemoteListConstants, RemoteTypes
  <2> QED BY <2>1, RemoteSlotAt DEF Remote!my_slot_index
<1>3. PICK s, mem : s = L[i] /\ mem = Remote!clear(i)
  OBVIOUS
<1>4. ~Remote!empty(i)
  BY <1>2 DEF Remote!TakeOwn
<1>5. /\ s \in Seq(Objects) /\ s # <<>> /\ IsInjective(s)
      /\ mem = [c \in Remote!Cells |-> mem[c]] /\ OnlyIn(next, mem, {last[i]})
      /\ Tailed(s, mem[Remote!dummy(i)], mem, 0) /\ last[i] = s[Len(s)]
  BY <1>3, <1>4, RemoteCleared
<1>6. /\ next' = mem /\ r' = mem[Remote!dummy(i)]
      /\ last' = [last EXCEPT ![i] = Remote!dummy(i)]
      /\ shift' = shift + RemoteSlotBits /\ value' = value /\ pc' = pc /\ pc = "post"
      /\ out' = <<>>
  BY <1>2, <1>3 DEF Remote!TakeOwn, Remote!next_shift
<1>7. PICK M : M = [L EXCEPT ![i] = <<>>]
  OBVIOUS
<1>8. PICK ends, links, new : ends = last /\ links = next /\ new = next'
  OBVIOUS
<1>9. /\ NoneTwice(L, q) /\ AllChained(L, ends, links)
      /\ ends = [j \in Remote!RemoteSlots |-> ends[j]]
  BY <1>8 DEF RemoteIs, RemoteTypes
<1>10. OnlyIn(links, new, Range(L[i]) \cup {ends[i]})
  BY <1>3, <1>5, <1>6, <1>8 DEF OnlyIn
<1>11. /\ M \in RemoteLists /\ AllChained(M, [ends EXCEPT ![i] = Remote!dummy(i)], new)
       /\ NoneTwice(M, q) /\ \A j \in Remote!RemoteSlots : Range(M[j]) \cap Range(L[i]) = {}
  BY <1>7, <1>9, <1>10, RemoteEmpties
<1>12. NoneTwice(M, s)
  BY <1>3, <1>5, <1>11 DEF NoneTwice
<1>13. RemoteIs(M, s)'
  BY <1>5, <1>6, <1>8, <1>11, <1>12 DEF RemoteIs
<1>14. RemoteTypes'
  <2>1. shift + RemoteSlotBits \in Nat
    BY PartsConstants DEF Remote!RemoteListConstants, RemoteTypes
  <2> QED BY <1>5, <1>6, <2>1 DEF RemoteTypes
<1> QED BY <1>1, <1>2, <1>3, <1>5, <1>7, <1>11, <1>13, <1>14

(* Its first node is put behind the list of its next slot: the link it     *)
(* still has from the own list leads on.                                   *)
LEMMA RemoteDistributes ==
  ASSUME RemoteTypes, NEW L \in RemoteLists, NEW q \in Seq(Objects), RemoteIs(L, q),
         Remote!Distribute
  PROVE  \E i \in Remote!RemoteSlots, M \in RemoteLists, p \in Seq(Objects) :
           /\ q # <<>> /\ r = Head(q) /\ p = Tail(q)
           /\ i = Remote!SlotAt(Remote!target_id(value[r]), shift)
           /\ RemoteTypes' /\ RemoteIs(M, p)'
           /\ M = [L EXCEPT ![i] = Append(L[i], r)]
<1>1. q # <<>>
  BY RemoteNoRest DEF Remote!Distribute, Remote!nullptr
<1>2. PICK o, p : o = r /\ p = Tail(q)
  OBVIOUS
<1>3. /\ p \in Seq(Objects) /\ o = Head(q) /\ o \in Objects /\ o \in Range(q)
      /\ IsInjective(p) /\ Range(p) = Range(q) \ {o}
  <2>1. o = q[1] /\ IsInjective(q)
    BY <1>1, <1>2 DEF RemoteIs, Tailed, NoneTwice
  <2> QED BY <1>1, <1>2, <2>1, SeqTail, InjectiveTail
<1>4. PICK i \in Remote!RemoteSlots : i = Remote!SlotAt(Remote!target_id(value[r]), shift)
  <2>1. value[r] \in Nat /\ SizeclassShift \in Nat
    BY <1>2, <1>3, PartsConstants DEF RemoteTypes, Remote!RemoteListConstants
  <2>2. Remote!target_id(value[r]) \in Nat
    <3>1. PICK v, n \in Nat : v = value[r] /\ n = 2 ^ SizeclassShift /\ n > 0
      BY <2>1, Pow2Pos
    <3>2. v % n \in Nat
      BY <3>1, QuotRem
    <3> QED BY <3>1, <3>2 DEF Remote!target_id
  <2> QED BY <2>2, RemoteSlotAt DEF RemoteTypes
<1>5. PICK ends, links, new : ends = last /\ links = next /\ new = next'
  OBVIOUS
<1>6. /\ new = [links EXCEPT ![ends[i]] = o] /\ r' = new[o]
      /\ last' = [ends EXCEPT ![i] = o]
      /\ value' = value /\ pc' = pc /\ pc = "post" /\ shift' = shift /\ out' = <<>>
  BY <1>2, <1>4, <1>5 DEF Remote!Distribute, Remote!insert
<1>7. PICK M : M = [L EXCEPT ![i] = Append(L[i], o)]
  OBVIOUS
<1>8. /\ NoneTwice(L, q) /\ AllChained(L, ends, links) /\ Tailed(q, o, links, 0)
      /\ ends = [j \in Remote!RemoteSlots |-> ends[j]]
      /\ links = [c \in Remote!Cells |-> links[c]]
  BY <1>2, <1>5 DEF RemoteIs, RemoteTypes
<1>9. ends[i] \in Remote!Cells /\ ends[i] \notin Range(q)
  <2>1. ends[i] \in {Remote!dummy(i)} \cup Range(L[i])
    BY <1>8, RemoteEnd
  <2>2. L[i] \in Seq(Objects) /\ Range(L[i]) \cap Range(q) = {}
    BY <1>8 DEF RemoteLists, NoneTwice
  <2> QED BY <2>1, <2>2, RemoteRange, RemoteMemory
<1>10. /\ new = [c \in Remote!Cells |-> new[c]] /\ new[ends[i]] = o
       /\ OnlyIn(links, new, {o} \cup {ends[i]})
  BY <1>6, <1>8, <1>9 DEF OnlyIn
<1>11. NoneTwice(L, p) /\ o \notin Range(p) /\ \A j \in Remote!RemoteSlots : o \notin Range(L[j])
  BY <1>3, <1>8 DEF NoneTwice
<1>12. M \in RemoteLists /\ AllChained(M, [ends EXCEPT ![i] = o], new) /\ NoneTwice(M, p)
  <2>1. /\ p \in Seq(Objects) /\ o \in Objects /\ o \notin Range(p) /\ NoneTwice(L, p)
        /\ AllChained(L, ends, links) /\ ends = [j \in Remote!RemoteSlots |-> ends[j]]
        /\ \A j \in Remote!RemoteSlots : o \notin Range(L[j])
    BY <1>3, <1>8, <1>11
  <2>2. OnlyIn(links, new, {o} \cup {ends[i]}) /\ new[ends[i]] = o
    BY <1>10
  <2> QED BY <1>7, <2>1, <2>2, RemotePuts
<1>13. Tailed(p, new[o], new, 0)
  <2>1. Same(links, new, Range(q))
    BY <1>6, <1>8, <1>9, RemoteRange DEF Same
  <2> QED BY <1>1, <1>2, <1>8, <2>1, TailedTail
<1>14. RemoteIs(M, p)'
  BY <1>5, <1>6, <1>12, <1>13 DEF RemoteIs
<1>15. RemoteTypes'
  BY <1>5, <1>6, <1>8, <1>10 DEF RemoteTypes
<1> QED BY <1>1, <1>2, <1>3, <1>4, <1>7, <1>12, <1>14, <1>15
(* Steps that change neither lists nor objects.                            *)
LEMMA RemoteSame ==
  ASSUME RemoteTypes, NEW L \in RemoteLists, NEW q \in Seq(Objects), RemoteIs(L, q),
         next' = next, value' = value, last' = last, r' = r, shift' \in Nat,
         pc' = "idle" => r = 0, r # 0 => out' = <<>>
  PROVE  RemoteTypes' /\ RemoteIs(L, q)'
<1>1. RemoteTypes'
  BY DEF RemoteTypes
<1>2. RemoteIs(L, q)'
  BY DEF RemoteIs, AllChained
<1> QED BY <1>1, <1>2

(* Every step keeps the lists apart.                                       *)
LEMMA RemoteKept ==
  ASSUME RemoteIInv, [Remote!Next]_(Remote!vars)
  PROVE  RemoteIInv'
<1>1. PICK L \in RemoteLists, q \in Seq(Objects) : RemoteIs(L, q)
  BY DEF RemoteIInv
<1>2. RemoteTypes
  BY DEF RemoteIInv
<1>3. ASSUME \E M \in RemoteLists, p \in Seq(Objects) : RemoteTypes' /\ RemoteIs(M, p)'
      PROVE  RemoteIInv'
  BY <1>3 DEF RemoteIInv
<1>4. CASE \E o \in Objects, id \in Ids, sc \in Classes : Remote!Enqueue(o, id, sc)
  BY <1>1, <1>2, <1>3, <1>4, RemoteEnqueues
<1>5. CASE Remote!Push
  BY <1>1, <1>2, <1>3, <1>5, RemotePushes
<1>6. CASE Remote!TakeOwn
  BY <1>1, <1>2, <1>3, <1>6, RemoteTakesOwn
<1>7. CASE Remote!Distribute
  BY <1>1, <1>2, <1>3, <1>7, RemoteDistributes
<1>8. ASSUME next' = next, value' = value, last' = last, r' = r, shift' \in Nat,
             pc' = "idle" => r = 0, r # 0 => out' = <<>>
      PROVE  RemoteIInv'
  BY <1>1, <1>2, <1>3, <1>8, RemoteSame
<1>9. CASE Remote!Begin
  BY <1>2, <1>8, <1>9 DEF Remote!Begin, RemoteTypes
<1>10. CASE Remote!Done
  BY <1>2, <1>8, <1>10 DEF Remote!Done, Remote!nullptr, RemoteTypes
<1>11. CASE UNCHANGED Remote!vars
  BY <1>2, <1>8, <1>11 DEF Remote!vars, RemoteTypes
<1> QED BY <1>4, <1>5, <1>6, <1>7, <1>9, <1>10, <1>11 DEF Remote!Next, Remote!Step

(* So no node is ever in two of them.                                      *)
LEMMA RemoteApart ==
  ASSUME RemoteIInv
  PROVE  Remote!ChainsApart
<1>1. PICK L \in RemoteLists, q \in Seq(Objects) : RemoteIs(L, q)
  BY DEF RemoteIInv
<1>2. /\ \A i \in Remote!RemoteSlots :
           /\ Remote!ChainOf(i) = Messages(L[i]) /\ L[i] \in Seq(Objects)
           /\ Remote!Distance(next, Remote!dummy(i), last[i]) = Len(L[i])
      /\ Remote!Rest = Messages(q) /\ Remote!Distance(next, r, Remote!nullptr) = Len(q)
      /\ NoneTwice(L, q)
  BY <1>1, RemoteKnown DEF RemoteLists, RemoteIs
<1>3. /\ \A i \in Remote!RemoteSlots : Remote!Distance(next, Remote!dummy(i), last[i]) # -1
      /\ Remote!Distance(next, r, Remote!nullptr) # -1
  <2>1. \A s \in Seq(Objects) : Len(s) # -1
    <3> TAKE s \in Seq(Objects)
    <3>1. Len(s) \in Nat
      BY LenProperties
    <3> QED BY <3>1
  <2> QED BY <1>2, <2>1
<1> DEFINE I == Remote!RemoteSlots \cup {-1}
           all == [k \in I |-> IF k = -1 THEN q ELSE L[k]]
           chains == [k \in I |-> IF k = -1 THEN Remote!Rest ELSE Remote!ChainOf(k)]
<1>4. ASSUME NEW k \in I
      PROVE  /\ all[k] \in Seq(Objects) /\ IsInjective(all[k]) /\ chains[k] = Messages(all[k])
             /\ \A j \in I : j # k => Range(all[k]) \cap Range(all[j]) = {}
  <2>1. \A j \in I : all[j] = (IF j = -1 THEN q ELSE L[j]) /\ (j # -1 => j \in Remote!RemoteSlots)
    OBVIOUS
  <2>2. chains[k] = IF k = -1 THEN Remote!Rest ELSE Remote!ChainOf(k)
    OBVIOUS
  <2> HIDE DEF all, chains, I
  <2>3. all[k] \in Seq(Objects) /\ IsInjective(all[k]) /\ chains[k] = Messages(all[k])
    BY <1>2, <2>1, <2>2 DEF NoneTwice
  <2>4. ASSUME NEW j \in I, j # k PROVE Range(all[k]) \cap Range(all[j]) = {}
    <3>1. CASE k = -1
      <4>1. all[k] = q /\ all[j] = L[j] /\ j \in Remote!RemoteSlots
        BY <2>1, <2>4, <3>1
      <4> QED BY <1>2, <4>1 DEF NoneTwice
    <3>2. CASE j = -1
      <4>1. all[j] = q /\ all[k] = L[k] /\ k \in Remote!RemoteSlots
        BY <2>1, <2>4, <3>2
      <4> QED BY <1>2, <4>1 DEF NoneTwice
    <3>3. CASE k # -1 /\ j # -1
      <4>1. /\ all[j] = L[j] /\ j \in Remote!RemoteSlots
            /\ all[k] = L[k] /\ k \in Remote!RemoteSlots
        BY <2>1, <3>3
      <4> QED BY <1>2, <2>4, <4>1 DEF NoneTwice
    <3> QED BY <3>1, <3>2, <3>3
  <2> QED BY <2>3, <2>4
<1>5. DOMAIN chains = I
  OBVIOUS
<1> HIDE DEF all, chains, I
<1>6. ASSUME NEW k \in I, NEW n \in DOMAIN chains[k]
      PROVE  n \in DOMAIN all[k] /\ chains[k][n][1] = all[k][n] /\ all[k][n] \in Range(all[k])
  <2>1. DOMAIN all[k] = 1 .. Len(all[k])
    BY <1>4, LenProperties
  <2>2. DOMAIN chains[k] = 1 .. Len(all[k]) /\ chains[k][n] = Remote!Message(all[k][n])
    BY <1>4 DEF Messages
  <2> QED BY <2>1, <2>2 DEF Remote!Message, Range
<1>7. ASSUME NEW k \in I, NEW n \in DOMAIN chains[k], NEW j \in I, NEW m \in DOMAIN chains[j],
             chains[k][n][1] = chains[j][m][1]
      PROVE  k = j /\ n = m
  <2>1. k = j
    <3>1. chains[k][n][1] \in Range(all[k]) /\ chains[k][n][1] \in Range(all[j])
      BY <1>6, <1>7
    <3>2. j # k => Range(all[k]) \cap Range(all[j]) = {}
      BY <1>4
    <3> QED BY <3>1, <3>2
  <2> QED BY <1>4, <1>6, <1>7, <2>1 DEF IsInjective
<1>8. ASSUME NEW p \in I \X Remote!Steps, p[2] \in DOMAIN chains[p[1]],
             NEW o \in I \X Remote!Steps, o[2] \in DOMAIN chains[o[1]], p # o
      PROVE  chains[p[1]][p[2]][1] # chains[o[1]][o[2]][1]
  <2>1. p[1] \in I /\ o[1] \in I /\ (p[1] # o[1] \/ p[2] # o[2])
    BY <1>8
  <2> QED BY <1>7, <1>8, <2>1
<1>9. Remote!ChainsApart
  <2>1. \A p, o \in {p \in I \X Remote!Steps : p[2] \in DOMAIN chains[p[1]]} :
          p # o => chains[p[1]][p[2]][1] # chains[o[1]][o[2]][1]
    BY <1>8
  <2>2. \A p, o \in {p \in (DOMAIN chains) \X Remote!Steps : p[2] \in DOMAIN chains[p[1]]} :
          p # o => chains[p[1]][p[2]][1] # chains[o[1]][o[2]][1]
    BY <1>5, <2>1
  <2> QED BY Zenon, <1>3, <2>2 DEF Remote!ChainsApart, chains, I
<1> QED BY <1>9
-----------------------------------------------------------------------------
(* What the words v of the objects of a list say, ...                      *)
Said(o, v) == <<o, Remote!target_id(v[o]), Remote!sizeclass(v[o])>>

SaidBy(s, v) == [k \in 1 .. Len(s) |-> Said(s[k], v)]

AllSaid(v) == {Said(o, v) : o \in Objects}

(* ... which are its messages.                                             *)
LEMMA RemoteSaid ==
  ASSUME NEW s
  PROVE  Messages(s) = SaidBy(s, value) /\ Messages(s)' = SaidBy(s, value')
BY DEF Messages, Remote!Message, SaidBy, Said

(* The messages are a sequence, empty for the empty list only.             *)
LEMMA SaidSequence ==
  ASSUME NEW s \in Seq(Objects), NEW v
  PROVE  /\ SaidBy(s, v) \in Seq(AllSaid(v)) /\ Len(SaidBy(s, v)) = Len(s)
         /\ SaidBy(s, v) = <<>> <=> s = <<>>
<1>1. PICK n \in Nat : n = Len(s)
  BY LenProperties
<1>2. \A k \in 1 .. n : s[k] \in Objects
  BY <1>1, ElementOfSeq
<1>3. PICK f : f = SaidBy(s, v)
  OBVIOUS
<1>4. f = [k \in 1 .. n |-> Said(s[k], v)]
  BY <1>1, <1>3 DEF SaidBy
<1>5. \A k \in 1 .. n : f[k] \in AllSaid(v)
  BY <1>2, <1>4 DEF AllSaid
<1>6. f \in [1 .. n -> AllSaid(v)]
  BY <1>4, <1>5
<1>7. f \in Seq(AllSaid(v)) /\ Len(f) = n
  BY <1>6, SeqDef, LenProperties
<1>8. s = <<>> <=> n = 0
  BY <1>1, EmptySeq
<1>9. f = <<>> <=> n = 0
  BY <1>7, EmptySeq
<1> QED BY <1>1, <1>3, <1>7, <1>8, <1>9

(* Appending an object appends its message; ...                            *)
LEMMA SaidAppend ==
  ASSUME NEW s \in Seq(Objects), NEW o \in Objects, NEW v
  PROVE  SaidBy(Append(s, o), v) = Append(SaidBy(s, v), Said(o, v))
<1>1. PICK n \in Nat : n = Len(s)
  BY LenProperties
<1>2. PICK t, f, g : t = Append(s, o) /\ f = SaidBy(s, v) /\ g = Append(f, Said(o, v))
  OBVIOUS
<1>3. t \in Seq(Objects) /\ Len(t) = n + 1 /\ t[n + 1] = o /\ \A k \in 1 .. n : t[k] = s[k]
  BY <1>1, <1>2, AppendProperties
<1>4. f \in Seq(AllSaid(v)) /\ Len(f) = n /\ Said(o, v) \in AllSaid(v)
  <2>1. Said(o, v) \in AllSaid(v)
    BY DEF AllSaid
  <2> QED BY <1>1, <1>2, <2>1, SaidSequence
<1>5. /\ g \in Seq(AllSaid(v)) /\ Len(g) = n + 1 /\ g[n + 1] = Said(o, v)
      /\ \A k \in 1 .. n : g[k] = f[k]
  BY <1>2, <1>4, AppendProperties
<1>6. PICK h : h = SaidBy(t, v)
  OBVIOUS
<1>7. h \in Seq(AllSaid(v)) /\ Len(h) = n + 1
  BY <1>3, <1>6, SaidSequence
<1>8. \A k \in 1 .. n + 1 : h[k] = g[k]
  <2> TAKE k \in 1 .. n + 1
  <2>1. h[k] = Said(t[k], v)
    BY <1>3, <1>6 DEF SaidBy
  <2>2. CASE k = n + 1
    BY <1>3, <1>5, <2>1, <2>2
  <2>3. CASE k \in 1 .. n
    <3>1. f[k] = Said(s[k], v)
      BY <1>1, <1>2, <2>3 DEF SaidBy
    <3> QED BY <1>3, <1>5, <2>1, <2>3, <3>1
  <2> QED BY <1>1, <2>2, <2>3
<1>9. h = g
  BY <1>5, <1>7, <1>8, SeqEqual
<1> QED BY <1>2, <1>6, <1>9

(* ... the messages but the first are those of the objects but the first.  *)
LEMMA SaidTail ==
  ASSUME NEW s \in Seq(Objects), s # <<>>, NEW v
  PROVE  SaidBy(s, v)[1] = Said(s[1], v) /\ Tail(SaidBy(s, v)) = SaidBy(Tail(s), v)
<1>1. PICK n \in Nat : n = Len(s) /\ n # 0
  BY EmptySeq, LenProperties
<1>2. PICK t, f : t = Tail(s) /\ f = SaidBy(s, v)
  OBVIOUS
<1>3. f \in Seq(AllSaid(v)) /\ Len(f) = n /\ f # <<>> /\ \A k \in 1 .. n : f[k] = Said(s[k], v)
  BY <1>1, <1>2, SaidSequence DEF SaidBy
<1>4. t \in Seq(Objects) /\ Len(t) = n - 1 /\ \A k \in 1 .. n - 1 : t[k] = s[k + 1]
  <2>1. t \in Seq(Objects) /\ Len(t) = Len(s) - 1 /\ \A k \in 1 .. Len(t) : t[k] = s[k + 1]
    BY <1>2, HeadTailProperties
  <2> QED BY <1>1, <2>1
<1>5. PICK g, h : g = Tail(f) /\ h = SaidBy(t, v)
  OBVIOUS
<1>6. g \in Seq(AllSaid(v)) /\ Len(g) = n - 1 /\ \A k \in 1 .. n - 1 : g[k] = f[k + 1]
  <2>1. g \in Seq(AllSaid(v)) /\ Len(g) = Len(f) - 1 /\ \A k \in 1 .. Len(g) : g[k] = f[k + 1]
    BY <1>3, <1>5, HeadTailProperties
  <2> QED BY <1>3, <2>1
<1>7. h \in Seq(AllSaid(v)) /\ Len(h) = n - 1 /\ \A k \in 1 .. n - 1 : h[k] = Said(t[k], v)
  BY <1>4, <1>5, SaidSequence DEF SaidBy
<1>8. \A k \in 1 .. n - 1 : g[k] = h[k]
  <2> TAKE k \in 1 .. n - 1
  <2>1. k + 1 \in 1 .. n
    BY <1>1
  <2> QED BY <1>3, <1>4, <1>6, <1>7, <2>1
<1>9. g = h
  BY <1>6, <1>7, <1>8, SeqEqual
<1>10. 1 \in 1 .. n
  BY <1>1
<1> QED BY <1>2, <1>3, <1>5, <1>9, <1>10

(* They are the same as long as its words are.                             *)
LEMMA SaidSame ==
  ASSUME NEW s \in Seq(Objects), NEW v, NEW w, \A o \in Range(s) : v[o] = w[o]
  PROVE  SaidBy(s, v) = SaidBy(s, w)
<1>1. \A k \in 1 .. Len(s) : s[k] \in Range(s)
  BY LenProperties DEF Range
<1> QED BY <1>1 DEF SaidBy, Said
-----------------------------------------------------------------------------
(* Where in l the messages for slot i are. *)
Belongs(l, at, i) == {n \in 1 .. Len(l) : Remote!SlotAt(l[n][2], at) = i}

(* The loop that distributes the messages of a list selects those whose    *)
(* target belongs in the slot ...                                          *)
LEMMA BucketLoop ==
  ASSUME NEW S, NEW l \in Seq(S), NEW at, NEW i
  PROVE  \E w : Selects(w, l, Len(l), Belongs(l, at, i)) /\ Remote!Bucket(l, at, i) = w[Len(l)]
<1>1. PICK m \in Nat : m = Len(l)
  BY LenProperties
<1> DEFINE G(w, n) == IF n = 0 THEN <<>>
                      ELSE IF Remote!SlotAt(l[n][2], at) = i THEN Append(w[n - 1], l[n])
                                                             ELSE w[n - 1]
           walked == CHOOSE w : w = [n \in 0 .. m |-> G(w, n)]
<1>2. PICK keep : keep = Belongs(l, at, i)
  OBVIOUS
<1>3. \A n \in 0 .. m : n # 0 => (n \in keep <=> Remote!SlotAt(l[n][2], at) = i)
  BY <1>1, <1>2 DEF Belongs
<1>4. ASSUME NEW w
      PROVE  Selects(w, l, m, keep) <=> w = [n \in 0 .. m |-> G(w, n)]
  BY <1>3 DEF Selects
<1>5. \E w : Selects(w, l, m, keep)
  BY SelectLoop
<1>6. walked = [n \in 0 .. m |-> G(walked, n)]
  <2>1. \E w : w = [n \in 0 .. m |-> G(w, n)]
    BY <1>4, <1>5
  <2> HIDE DEF G
  <2> QED BY <2>1
<1>7. Remote!Bucket(l, at, i) = walked[m]
  BY <1>1 DEF Remote!Bucket
<1> HIDE DEF walked
<1>8. Selects(walked, l, m, keep)
  BY <1>4, <1>6
<1> QED BY <1>1, <1>2, <1>7, <1>8

FirstIn(l, at, i) == IF Remote!SlotAt(l[1][2], at) = i THEN <<l[1]>> ELSE <<>>

(* ... one after the other.                                                *)
LEMMA BucketTail ==
  ASSUME NEW S, NEW l \in Seq(S), l # <<>>, NEW at, NEW i, NEW t, IsTail(t, l)
  PROVE  Remote!Bucket(l, at, i) = Joined(FirstIn(l, at, i), Remote!Bucket(t, at, i))
<1>1. PICK n \in Nat : n = Len(l) /\ n # 0
  BY EmptySeq, LenProperties
<1>2. t \in Seq(S) /\ Len(t) = n - 1 /\ \A k \in 1 .. n - 1 : t[k] = l[k + 1]
  <2>1. t \in Seq(S) /\ Len(t) = Len(l) - 1 /\ \A k \in 1 .. Len(t) : t[k] = l[k + 1]
    BY HeadTailProperties DEF IsTail
  <2> QED BY <1>1, <2>1
<1>3. PICK keep, w : /\ keep = Belongs(l, at, i) /\ Selects(w, l, Len(l), keep)
                     /\ Remote!Bucket(l, at, i) = w[Len(l)]
  BY BucketLoop
<1>4. PICK rest, v : /\ rest = Belongs(t, at, i) /\ Selects(v, t, Len(t), rest)
                     /\ Remote!Bucket(t, at, i) = v[Len(t)]
  BY <1>2, BucketLoop
<1>5. ASSUME NEW k \in Nat, k # 0 PROVE k \in rest <=> k + 1 \in keep
  <2>1. k \in rest <=> k <= n - 1 /\ Remote!SlotAt(t[k][2], at) = i
    BY <1>1, <1>2, <1>4, <1>5 DEF Belongs
  <2>2. k + 1 \in keep <=> k + 1 <= n /\ Remote!SlotAt(l[k + 1][2], at) = i
    BY <1>1, <1>3 DEF Belongs
  <2>3. k <= n - 1 <=> k + 1 <= n
    BY <1>1
  <2>4. k <= n - 1 => t[k] = l[k + 1]
    BY <1>1, <1>2, <1>5
  <2> QED BY <2>1, <2>2, <2>3, <2>4
<1>6. OneLess(rest, keep)
  BY <1>5 DEF OneLess
<1>7. w[Len(l)] = Joined(FirstIf(l, keep), v[Len(t)])
  BY <1>3, <1>4, <1>6, SelectTail
<1>8. 1 \in keep <=> Remote!SlotAt(l[1][2], at) = i
  BY <1>1, <1>3 DEF Belongs
<1> QED BY <1>3, <1>4, <1>7, <1>8 DEF FirstIf, FirstIn

(* Of no messages, none belong in it.                                      *)
LEMMA BucketEmpty ==
  ASSUME NEW at, NEW i
  PROVE  Remote!Bucket(<<>>, at, i) = <<>>
<1>1. <<>> \in Seq({}) /\ Len(<<>>) = 0
  BY EmptySeq
<1>2. PICK keep, w : /\ keep = Belongs(<<>>, at, i) /\ Selects(w, <<>>, 0, keep)
                     /\ Remote!Bucket(<<>>, at, i) = w[0]
  BY <1>1, BucketLoop
<1> QED BY <1>2 DEF Selects

(* Messages that wait for their slot are a sequence.                       *)
LEMMA BucketSequence ==
  ASSUME NEW S, NEW l \in Seq(S), NEW at, NEW i
  PROVE  Remote!Bucket(l, at, i) \in Seq(S)
<1>1. PICK n \in Nat : n = Len(l)
  BY LenProperties
<1>2. PICK keep, w : /\ keep = Belongs(l, at, i) /\ Selects(w, l, n, keep)
                     /\ Remote!Bucket(l, at, i) = w[n]
  BY <1>1, BucketLoop
<1>3. n \in 0 .. Len(l) /\ n \in 0 .. n
  BY <1>1
<1>4. \A k \in 0 .. n : w[k] \in Seq(S)
  BY <1>2, <1>3, SelectSequence
<1> QED BY <1>2, <1>3, <1>4
-----------------------------------------------------------------------------
(* The messages that wait in each slot, those not yet distributed counted. *)
WaitingIn(L, q, v, at) ==
  [i \in Remote!RemoteSlots |-> Joined(SaidBy(L[i], v), Remote!Bucket(SaidBy(q, v), at, i))]

SeenRight ==
  \A M \in RemoteLists, p \in Seq(Objects) :
    RemoteIs(M, p) => Remote!Lists = WaitingIn(M, p, value, shift)

(* They are what the specification reads from the links, before ...        *)
LEMMA RemoteSeen == SeenRight
<1> SUFFICES ASSUME NEW M \in RemoteLists, NEW p \in Seq(Objects), RemoteIs(M, p)
             PROVE  Remote!Lists = WaitingIn(M, p, value, shift)
  BY DEF SeenRight
<1>1. /\ Remote!Rest = SaidBy(p, value)
      /\ \A i \in Remote!RemoteSlots : Remote!ChainOf(i) = SaidBy(M[i], value)
  BY RemoteKnown, RemoteSaid
<1> QED BY <1>1 DEF Remote!Lists, WaitingIn, Joined

(* ... and after a step.                                                   *)
LEMMA RemoteSeenNext ==
  ASSUME NEW L \in RemoteLists, NEW q \in Seq(Objects), RemoteIs(L, q)'
  PROVE  Remote!Lists' = WaitingIn(L, q, value', shift')
<1>1. SeenRight'
  BY RemoteSeen, PTL
<1> QED BY <1>1 DEF SeenRight

(* When post is at no node, the lists are all that waits.                  *)
LEMMA NoneUnderway ==
  ASSUME NEW L \in RemoteLists, NEW v, NEW at
  PROVE  /\ WaitingIn(L, <<>>, v, at) = [i \in Remote!RemoteSlots |-> SaidBy(L[i], v)]
         /\ \A i \in Remote!RemoteSlots : SaidBy(L[i], v) = <<>> <=> L[i] = <<>>
<1>1. ASSUME NEW i \in Remote!RemoteSlots
      PROVE  /\ Joined(SaidBy(L[i], v), Remote!Bucket(SaidBy(<<>>, v), at, i)) = SaidBy(L[i], v)
             /\ SaidBy(L[i], v) = <<>> <=> L[i] = <<>>
  <2>1. L[i] \in Seq(Objects) /\ <<>> \in Seq(Objects)
    BY EmptySeq DEF RemoteLists
  <2>2. SaidBy(<<>>, v) = <<>> /\ (SaidBy(L[i], v) = <<>> <=> L[i] = <<>>)
    BY <2>1, SaidSequence
  <2>3. Remote!Bucket(SaidBy(<<>>, v), at, i) = <<>>
    BY <2>2, BucketEmpty
  <2>4. SaidBy(L[i], v) \in Seq(AllSaid(v))
    BY <2>1, SaidSequence
  <2>5. SaidBy(L[i], v) \o <<>> = SaidBy(L[i], v)
    BY <2>4, ConcatEmptySeq
  <2> QED BY <2>2, <2>3, <2>5 DEF Joined
<1> QED BY <1>1 DEF WaitingIn

(* The first node of q is put behind list i. *)
PutFirst(L, q, i, o, M, p) ==
  o = Head(q) /\ p = Tail(q) /\ M = [L EXCEPT ![i] = Append(L[i], o)]

(* A node that is distributed waits in the same slot, in the same place.   *)
LEMMA DistributedSame ==
  ASSUME NEW L \in RemoteLists, NEW q \in Seq(Objects), q # <<>>, NEW v, NEW at,
         NEW i \in Remote!RemoteSlots, NEW o, NEW M, NEW p, PutFirst(L, q, i, o, M, p),
         i = Remote!SlotAt(Remote!target_id(v[o]), at)
  PROVE  WaitingIn(M, p, v, at) = WaitingIn(L, q, v, at)
<1>1. /\ p \in Seq(Objects) /\ o \in Objects /\ o = q[1]
      /\ p = Tail(q) /\ M = [L EXCEPT ![i] = Append(L[i], o)]
  BY SeqTail, HeadTailProperties, ElementOfSeq, EmptySeq DEF PutFirst
<1>2. PICK one, m, n : /\ one = Said(o, v) /\ m = SaidBy(q, v) /\ n = SaidBy(p, v)
  OBVIOUS
<1>3. /\ m \in Seq(AllSaid(v)) /\ n \in Seq(AllSaid(v)) /\ m # <<>>
  BY <1>1, <1>2, SaidSequence
<1>4. m[1] = one /\ Tail(m) = n
  BY <1>1, <1>2, SaidTail
<1>5. one[2] = Remote!target_id(v[o]) /\ one \in AllSaid(v)
  BY <1>1, <1>2 DEF Said, AllSaid
<1>6. ASSUME NEW j \in Remote!RemoteSlots
      PROVE  Joined(SaidBy(M[j], v), Remote!Bucket(n, at, j))
               = Joined(SaidBy(L[j], v), Remote!Bucket(m, at, j))
  <2>1. Remote!Bucket(m, at, j) = Joined(IF i = j THEN <<one>> ELSE <<>>, Remote!Bucket(n, at, j))
    <3>1. IsTail(n, m)
      BY <1>4 DEF IsTail
    <3>2. Remote!Bucket(m, at, j) = Joined(FirstIn(m, at, j), Remote!Bucket(n, at, j))
      BY <1>3, <3>1, BucketTail
    <3> QED BY <1>4, <1>5, <3>2 DEF FirstIn
  <2>2. PICK s, b : s = SaidBy(L[j], v) /\ b = Remote!Bucket(n, at, j)
    OBVIOUS
  <2>3. L[j] \in Seq(Objects) /\ s \in Seq(AllSaid(v)) /\ b \in Seq(AllSaid(v))
    BY <1>3, <2>2, SaidSequence, BucketSequence DEF RemoteLists
  <2>4. CASE i = j
    <3>1. SaidBy(M[j], v) = Put(s, one)
      <4>1. M[j] = Append(L[j], o)
        BY <1>1, <2>4 DEF RemoteLists
      <4>2. SaidBy(Append(L[j], o), v) = Append(SaidBy(L[j], v), Said(o, v))
        BY <1>1, <2>3, SaidAppend
      <4> QED BY <1>2, <2>2, <4>1, <4>2 DEF Put
    <3>2. Joined(Put(s, one), b) = Joined(s, Joined(<<one>>, b))
      BY <1>5, <2>3, JoinedPut
    <3>3. Remote!Bucket(m, at, j) = Joined(<<one>>, b)
      BY <2>1, <2>2, <2>4
    <3> QED BY <2>2, <3>1, <3>2, <3>3
  <2>5. CASE i # j
    <3>1. M[j] = L[j]
      BY <1>1, <2>5 DEF RemoteLists
    <3>2. <<>> \o b = b
      BY <2>3, ConcatEmptySeq
    <3>3. Remote!Bucket(m, at, j) = b
      BY <2>1, <2>2, <2>5, <3>2 DEF Joined
    <3> QED BY <2>2, <3>1, <3>3
  <2> QED BY <2>4, <2>5
<1> QED BY <1>2, <1>6 DEF WaitingIn
-----------------------------------------------------------------------------
(* Both levels have the same slots.                                        *)
LEMMA CacheSame ==
  /\ Remote!Abstract!RemoteSlots = Remote!RemoteSlots
  /\ \A id, at : Remote!Abstract!SlotAt(id, at) = Remote!SlotAt(id, at)
  /\ \A l, at, i : Remote!Abstract!Bucket(l, at, i) = Remote!Bucket(l, at, i)
  /\ Remote!Abstract!OwnSlot = Remote!my_slot_index
<1>1. Remote!Abstract!RemoteSlots = Remote!RemoteSlots
  BY DEF Remote!Abstract!RemoteSlots, Remote!RemoteSlots
<1>2. \A id, at : Remote!Abstract!SlotAt(id, at) = Remote!SlotAt(id, at)
  BY DEF Remote!Abstract!SlotAt, Remote!SlotAt
<1>3. \A l, at, i : Remote!Abstract!Bucket(l, at, i) = Remote!Bucket(l, at, i)
  BY DEF Remote!Abstract!Bucket, Remote!Bucket, Remote!Abstract!SlotAt, Remote!SlotAt
<1>4. Remote!Abstract!OwnSlot = Remote!my_slot_index
  BY <1>2 DEF Remote!Abstract!OwnSlot, Remote!my_slot_index
<1> QED BY <1>1, <1>2, <1>3, <1>4

(* Nothing waits initially.                                                *)
LEMMA CacheInitially == Remote!Init => Remote!Abstract!Init
<1> SUFFICES ASSUME Remote!Init PROVE Remote!Abstract!Init
  OBVIOUS
<1>1. PICK L : L = [i \in Remote!RemoteSlots |-> <<>>]
  OBVIOUS
<1>2. L \in RemoteLists /\ <<>> \in Seq(Objects)
  BY <1>1, EmptySeq DEF RemoteLists
<1>3. RemoteIs(L, <<>>)
  <2>1. NoneTwice(L, <<>>)
    BY <1>1 DEF NoneTwice, Range, IsInjective
  <2>2. AllChained(L, last, next) /\ Tailed(<<>>, r, next, 0)
    BY <1>1, EmptySeq DEF Remote!Init, Remote!nullptr, AllChained, Chained, Tailed
  <2> QED BY <2>1, <2>2 DEF RemoteIs
<1>4. Remote!Lists = WaitingIn(L, <<>>, value, shift)
  BY <1>2, <1>3, RemoteSeen DEF SeenRight
<1>5. /\ Remote!Lists = [i \in Remote!RemoteSlots |-> SaidBy(L[i], value)]
      /\ \A i \in Remote!RemoteSlots : SaidBy(L[i], value) = <<>>
  BY <1>1, <1>2, <1>4, NoneUnderway
<1>6. Remote!Lists = [i \in Remote!RemoteSlots |-> <<>>]
  BY <1>5
<1> QED BY <1>6, CacheSame DEF Remote!Init, Remote!Abstract!Init

(* An object and its words come to wait behind the others of the slot.     *)
LEMMA CacheEnqueues ==
  ASSUME RemoteTypes, NEW L \in RemoteLists, NEW q \in Seq(Objects), RemoteIs(L, q),
         NEW o \in Objects, NEW id \in Ids, NEW sc \in Classes, Remote!Enqueue(o, id, sc)
  PROVE  Remote!Abstract!Enqueue(o, id, sc)
<1>1. PICK M \in RemoteLists, i \in Remote!RemoteSlots :
        /\ RemoteIs(M, q)' /\ q = <<>> /\ i = Remote!SlotAt(id, 0)
        /\ M = [L EXCEPT ![i] = Append(L[i], o)]
        /\ \A j \in Remote!RemoteSlots : o \notin Range(L[j])
  BY RemoteEnqueues
<1>2. PICK word \in {0, 2 ^ WordBits - 1} :
        value' = [value EXCEPT ![o] = Remote!set_target_id(Remote!set_sizeclass(word, sc), id)]
  BY DEF Remote!Enqueue
<1>3. PICK v, w : v = value /\ w = value'
  OBVIOUS
<1>4. Said(o, w) = <<o, id, sc>> /\ \A x \in Objects : x # o => w[x] = v[x]
  <2>1. w[o] = Remote!set_target_id(Remote!set_sizeclass(word, sc), id)
    BY <1>2, <1>3 DEF RemoteTypes
  <2>2. Remote!target_id(w[o]) = id /\ Remote!sizeclass(w[o]) = sc
    BY <2>1, RemoteWord
  <2>3. \A x \in Objects : x # o => w[x] = v[x]
    BY <1>2, <1>3 DEF RemoteTypes
  <2> QED BY <2>2, <2>3 DEF Said
<1>5. ASSUME NEW j \in Remote!RemoteSlots
      PROVE  /\ SaidBy(L[j], w) = SaidBy(L[j], v)
             /\ SaidBy(M[j], w) = IF j = i THEN Append(SaidBy(L[j], v), <<o, id, sc>>)
                                           ELSE SaidBy(L[j], v)
  <2>1. L[j] \in Seq(Objects)
    BY DEF RemoteLists
  <2>2. \A x \in Range(L[j]) : w[x] = v[x]
    BY <1>1, <1>4, <2>1, RemoteRange
  <2>3. SaidBy(L[j], w) = SaidBy(L[j], v)
    BY <2>1, <2>2, SaidSame
  <2>4. SaidBy(Append(L[j], o), w) = Append(SaidBy(L[j], w), Said(o, w))
    BY <2>1, SaidAppend
  <2>5. M[j] = IF j = i THEN Append(L[j], o) ELSE L[j]
    BY <1>1 DEF RemoteLists
  <2> QED BY <1>4, <2>3, <2>4, <2>5
<1>6. /\ Remote!Lists = [j \in Remote!RemoteSlots |-> SaidBy(L[j], v)]
      /\ Remote!Lists' = [j \in Remote!RemoteSlots |-> SaidBy(M[j], w)]
  <2>1. Remote!Lists = WaitingIn(L, <<>>, v, shift)
    BY <1>1, <1>3, RemoteSeen DEF SeenRight
  <2>2. Remote!Lists' = WaitingIn(M, <<>>, w, shift')
    BY <1>1, <1>3, RemoteSeenNext
  <2> QED BY <2>1, <2>2, NoneUnderway
<1>7. Remote!Lists' = [Remote!Lists EXCEPT ![i] = Append(@, <<o, id, sc>>)]
  BY <1>5, <1>6
<1>8. o \notin Remote!Abstract!Waiting
  <2> SUFFICES ASSUME NEW j \in Remote!RemoteSlots,
                      NEW msg \in Range(SaidBy(L[j], v)), msg[1] = o
               PROVE  FALSE
    BY <1>6, CacheSame DEF Remote!Abstract!Waiting, Remote!Abstract!Range, Range
  <2>1. L[j] \in Seq(Objects)
    BY DEF RemoteLists
  <2>2. PICK n \in 1 .. Len(L[j]) : msg = Said(L[j][n], v)
    BY DEF Range, SaidBy
  <2>3. L[j][n] \in Range(L[j]) /\ msg[1] = L[j][n]
    BY <2>1, <2>2, LenProperties DEF Range, Said
  <2> QED BY <1>1, <2>3
<1> QED BY <1>1, <1>7, <1>8, CacheSame DEF Remote!Enqueue, Remote!Abstract!Enqueue
(* While post is at no node, the lists with messages are those with nodes. *)
LEMMA CacheOthers ==
  ASSUME NEW L \in RemoteLists, RemoteIs(L, <<>>)
  PROVE  /\ Remote!Lists = [j \in Remote!RemoteSlots |-> SaidBy(L[j], value)]
         /\ \A j \in Remote!RemoteSlots : Remote!Lists[j] = <<>> <=> Remote!empty(j)
         /\ Remote!Abstract!OtherSlots = Remote!OtherSlots
<1>1. <<>> \in Seq(Objects)
  BY EmptySeq
<1>2. Remote!Lists = WaitingIn(L, <<>>, value, shift)
  BY <1>1, RemoteSeen DEF SeenRight
<1>3. Remote!Lists = [j \in Remote!RemoteSlots |-> SaidBy(L[j], value)]
  BY <1>2, NoneUnderway
<1>4. \A j \in Remote!RemoteSlots : Remote!empty(j) <=> L[j] = <<>>
  BY <1>1, RemoteKnown
<1>5. \A j \in Remote!RemoteSlots : SaidBy(L[j], value) = <<>> <=> L[j] = <<>>
  BY NoneUnderway
<1>6. \A j \in Remote!RemoteSlots : Remote!Lists[j] = <<>> <=> Remote!empty(j)
  BY <1>3, <1>4, <1>5
<1>7. Remote!Abstract!OtherSlots = Remote!OtherSlots
  BY <1>6, CacheSame DEF Remote!Abstract!OtherSlots, Remote!OtherSlots
<1> QED BY <1>3, <1>6, <1>7

(* A slot of others is given away as a whole.                              *)
LEMMA CachePushes ==
  ASSUME RemoteTypes, NEW L \in RemoteLists, NEW q \in Seq(Objects), RemoteIs(L, q), Remote!Push
  PROVE  Remote!Abstract!Push
<1>1. PICK i \in Remote!OtherSlots, M \in RemoteLists :
        /\ \A j \in Remote!OtherSlots : i <= j
        /\ out' = Messages(L[i])
        /\ RemoteIs(M, q)' /\ q = <<>>
        /\ M = [L EXCEPT ![i] = <<>>]
        /\ \A j \in Remote!RemoteSlots : \A o \in Range(M[j]) : value'[o] = value[o]
  BY RemotePushes
<1>2. i \in Remote!RemoteSlots
  BY DEF Remote!OtherSlots
<1>3. PICK v, w : v = value /\ w = value'
  OBVIOUS
<1>4. /\ Remote!Lists = [j \in Remote!RemoteSlots |-> SaidBy(L[j], v)]
      /\ Remote!Abstract!OtherSlots = Remote!OtherSlots
  BY <1>1, <1>3, CacheOthers
<1>5. Remote!Lists' = [j \in Remote!RemoteSlots |-> SaidBy(M[j], w)]
  <2>1. Remote!Lists' = WaitingIn(M, <<>>, w, shift')
    BY <1>1, <1>3, RemoteSeenNext
  <2> QED BY <2>1, NoneUnderway
<1>6. ASSUME NEW j \in Remote!RemoteSlots
      PROVE  SaidBy(M[j], w) = IF j = i THEN <<>> ELSE SaidBy(L[j], v)
  <2>1. M[j] \in Seq(Objects) /\ M[j] = IF j = i THEN <<>> ELSE L[j]
    BY <1>1 DEF RemoteLists
  <2>2. SaidBy(M[j], w) = SaidBy(M[j], v)
    <3>1. \A o \in Range(M[j]) : w[o] = v[o]
      BY <1>1, <1>3
    <3> QED BY <2>1, <3>1, SaidSame
  <2>3. M[j] = <<>> => SaidBy(M[j], v) = <<>>
    BY <2>1, SaidSequence
  <2> QED BY <2>1, <2>2, <2>3
<1>7. Remote!Lists' = [Remote!Lists EXCEPT ![i] = <<>>]
  BY <1>4, <1>5, <1>6
<1>8. out' = Remote!Lists[i]
  <2>1. Messages(L[i]) = SaidBy(L[i], v)
    BY <1>3, RemoteSaid
  <2> QED BY <1>1, <1>2, <1>4, <2>1
<1> QED BY <1>1, <1>4, <1>7, <1>8 DEF Remote!Push, Remote!Abstract!Push

(* When post takes the own slot apart, its messages wait where it will     *)
(* bring them, ...                                                         *)
LEMMA CacheRebuckets ==
  ASSUME RemoteTypes, NEW L \in RemoteLists, NEW q \in Seq(Objects), RemoteIs(L, q),
         Remote!TakeOwn
  PROVE  Remote!Abstract!Rebucket
<1>1. PICK i \in Remote!RemoteSlots, M \in RemoteLists, p \in Seq(Objects) :
        /\ i = Remote!my_slot_index /\ p = L[i] /\ p # <<>>
        /\ RemoteIs(M, p)' /\ q = <<>>
        /\ M = [L EXCEPT ![i] = <<>>]
  BY RemoteTakesOwn
<1>2. /\ Remote!OtherSlots = {} /\ ~Remote!empty(i) /\ pc = "post" /\ pc' = pc
      /\ value' = value /\ shift' = shift + RemoteSlotBits /\ out' = <<>>
  BY <1>1 DEF Remote!TakeOwn, Remote!next_shift
<1>3. PICK v, at : v = value /\ at = shift'
  OBVIOUS
<1>4. /\ Remote!Lists = [j \in Remote!RemoteSlots |-> SaidBy(L[j], v)]
      /\ Remote!Lists[i] # <<>>
      /\ Remote!Abstract!OtherSlots = {}
  BY <1>1, <1>2, <1>3, CacheOthers
<1>5. Remote!Lists' = WaitingIn(M, p, v, at)
  BY <1>1, <1>2, <1>3, RemoteSeenNext
<1>6. \A j \in Remote!RemoteSlots : M[j] = <<>>
  <2>1. \A j \in Remote!RemoteSlots : j # i => L[j] = <<>>
    <3>1. \A j \in Remote!RemoteSlots : j # i => Remote!empty(j)
      BY <1>1, <1>2 DEF Remote!OtherSlots
    <3> QED BY <3>1, RemoteKnown
  <2> QED BY <1>1, <2>1 DEF RemoteLists
<1>7. ASSUME NEW j \in Remote!RemoteSlots
      PROVE  Joined(SaidBy(M[j], v), Remote!Bucket(SaidBy(p, v), at, j))
               = Remote!Bucket(Remote!Lists[i], at, j)
  <2>1. SaidBy(p, v) = Remote!Lists[i]
    BY <1>1, <1>4
  <2>2. SaidBy(M[j], v) = <<>>
    BY <1>6, SaidSequence DEF RemoteLists
  <2>3. PICK b : b = Remote!Bucket(SaidBy(p, v), at, j)
    OBVIOUS
  <2>4. b \in Seq(AllSaid(v))
    BY <2>3, SaidSequence, BucketSequence
  <2>5. <<>> \o b = b
    BY <2>4, ConcatEmptySeq
  <2> QED BY <2>1, <2>2, <2>3, <2>5 DEF Joined
<1>8. Remote!Lists' = [j \in Remote!RemoteSlots |-> Remote!Bucket(Remote!Lists[i], at, j)]
  BY <1>5, <1>7 DEF WaitingIn
<1> QED BY <1>1, <1>2, <1>3, <1>4, <1>8, CacheSame DEF Remote!Abstract!Rebucket

(* ... so that when it brings them there nothing changes.                  *)
LEMMA CacheDistributes ==
  ASSUME RemoteTypes, NEW L \in RemoteLists, NEW q \in Seq(Objects), RemoteIs(L, q),
         Remote!Distribute
  PROVE  UNCHANGED Remote!Abstract!vars
<1>1. PICK i \in Remote!RemoteSlots, M \in RemoteLists, p \in Seq(Objects) :
        /\ q # <<>> /\ r = Head(q) /\ p = Tail(q)
        /\ i = Remote!SlotAt(Remote!target_id(value[r]), shift)
        /\ RemoteIs(M, p)'
        /\ M = [L EXCEPT ![i] = Append(L[i], r)]
  BY RemoteDistributes
<1>2. value' = value /\ shift' = shift /\ pc' = pc /\ out' = <<>> /\ out = <<>>
  BY DEF Remote!Distribute, Remote!nullptr, RemoteTypes
<1>3. PICK v, at, o : v = value /\ at = shift /\ o = r
  OBVIOUS
<1>4. Remote!Lists = WaitingIn(L, q, v, at)
  BY <1>3, RemoteSeen DEF SeenRight
<1>5. Remote!Lists' = WaitingIn(M, p, v, at)
  BY <1>1, <1>2, <1>3, RemoteSeenNext
<1>6. WaitingIn(M, p, v, at) = WaitingIn(L, q, v, at)
  <2>1. /\ q # <<>> /\ PutFirst(L, q, i, o, M, p)
        /\ i = Remote!SlotAt(Remote!target_id(v[o]), at)
    BY <1>1, <1>3 DEF PutFirst
  <2> QED BY <2>1, DistributedSame
<1> QED BY <1>2, <1>4, <1>5, <1>6 DEF Remote!Abstract!vars

(* Begin and Done leave the links.                                         *)
LEMMA CacheStays ==
  ASSUME NEW L \in RemoteLists, NEW q \in Seq(Objects), RemoteIs(L, q), RemoteIs(L, q)',
         value' = value, shift' = shift \/ q = <<>>
  PROVE  Remote!Lists' = Remote!Lists
<1>1. PICK v, a, b : v = value /\ a = shift /\ b = shift'
  OBVIOUS
<1>2. Remote!Lists = WaitingIn(L, q, v, a) /\ Remote!Lists' = WaitingIn(L, q, v, b)
  BY <1>1, RemoteSeen, RemoteSeenNext DEF SeenRight
<1>3. q = <<>> => WaitingIn(L, q, v, a) = WaitingIn(L, q, v, b)
  BY NoneUnderway
<1> QED BY <1>1, <1>2, <1>3

(* Every step on links and words is one on the messages, or changes none.  *)
LEMMA CacheImplements ==
  ASSUME RemoteIInv, [Remote!Next]_(Remote!vars)
  PROVE  [Remote!Abstract!Next]_(Remote!Abstract!vars)
<1>1. PICK L \in RemoteLists, q \in Seq(Objects) : RemoteIs(L, q)
  BY DEF RemoteIInv
<1>2. RemoteTypes
  BY DEF RemoteIInv
<1>3. CASE \E o \in Objects, id \in Ids, sc \in Classes : Remote!Enqueue(o, id, sc)
  BY <1>1, <1>2, <1>3, CacheEnqueues DEF Remote!Abstract!Next
<1>4. CASE Remote!Push
  BY <1>1, <1>2, <1>4, CachePushes DEF Remote!Abstract!Next
<1>5. CASE Remote!TakeOwn
  BY <1>1, <1>2, <1>5, CacheRebuckets DEF Remote!Abstract!Next
<1>6. CASE Remote!Distribute
  BY <1>1, <1>2, <1>6, CacheDistributes
<1>7. CASE Remote!Begin
  <2>1. RemoteIs(L, q)'
    BY <1>1, <1>2, <1>7, RemoteSame DEF Remote!Begin, RemoteTypes
  <2>2. Remote!Lists' = Remote!Lists
    BY <1>1, <1>7, <2>1, CacheStays DEF Remote!Begin
  <2> QED BY <1>7, <2>2 DEF Remote!Begin, Remote!Abstract!Begin, Remote!Abstract!Next
<1>8. CASE Remote!Done
  <2>1. RemoteIs(L, q)' /\ q = <<>>
    BY <1>1, <1>2, <1>8, RemoteSame, RemoteNoRest DEF Remote!Done, Remote!nullptr, RemoteTypes
  <2>2. Remote!Lists' = Remote!Lists
    BY <1>1, <1>8, <2>1, CacheStays DEF Remote!Done
  <2>3. \A i \in Remote!RemoteSlots : Remote!empty(i)
    BY <1>8 DEF Remote!Done, Remote!OtherSlots
  <2>4. \A i \in Remote!RemoteSlots : Remote!Lists[i] = <<>>
    BY <1>1, <2>1, <2>3, CacheOthers
  <2> QED BY <1>8, <2>2, <2>4, CacheSame
          DEF Remote!Done, Remote!Abstract!Done, Remote!Abstract!Next
<1>9. CASE UNCHANGED Remote!vars
  <2>1. RemoteIs(L, q)'
    BY <1>1, <1>2, <1>9, RemoteSame DEF Remote!vars, RemoteTypes
  <2>2. Remote!Lists' = Remote!Lists
    BY <1>1, <1>9, <2>1, CacheStays DEF Remote!vars
  <2> QED BY <1>9, <2>2 DEF Remote!vars, Remote!Abstract!vars
<1> QED BY <1>3, <1>4, <1>5, <1>6, <1>7, <1>8, <1>9 DEF Remote!Next, Remote!Step
-----------------------------------------------------------------------------
(* The invariant of the thread's parts.                                    *)
PartsIInv == MediumIInv /\ SmallIInv /\ RemoteIInv

(* Every step of the thread is a step of each part, or leaves it alone.    *)
LEMMA PartsShare ==
  ASSUME [PartsNext]_all_vars
  PROVE  [Medium!Next]_(Medium!vars) /\ [Small!Next]_(Small!vars) /\ [Remote!Next]_(Remote!vars)
<1>1. /\ (medium_vars' = medium_vars) => UNCHANGED Medium!vars
      /\ (small_vars' = small_vars) => UNCHANGED Small!vars
      /\ (remote_vars' = remote_vars) => UNCHANGED Remote!vars
  BY DEF medium_vars, small_vars, remote_vars, Medium!vars, Small!vars, Remote!vars
<1>2. CASE Medium!Next /\ small_vars' = small_vars /\ remote_vars' = remote_vars
  BY <1>1, <1>2
<1>3. CASE Small!Next /\ medium_vars' = medium_vars /\ remote_vars' = remote_vars
  BY <1>1, <1>3
<1>4. CASE Remote!Next /\ medium_vars' = medium_vars /\ small_vars' = small_vars
  BY <1>1, <1>4
<1>5. CASE UNCHANGED all_vars
  BY <1>1, <1>5 DEF all_vars
<1> QED BY <1>2, <1>3, <1>4, <1>5 DEF PartsNext

(* It holds of what a thread starts with ...                               *)
LEMMA PartsInitially == PartsInit => PartsIInv
BY MediumInitially, SmallInitially, RemoteInitially DEF PartsInit, PartsIInv

(* ... and every step keeps it.                                            *)
LEMMA PartsStep == PartsIInv /\ [PartsNext]_all_vars => PartsIInv'
BY PartsShare, MediumStep, SmallStep, RemoteKept DEF PartsIInv

(* The stacks of offsets and the lists through objects and nodes are       *)
(* always what the sets of held and waiting objects say.                   *)
THEOREM PartsInvariant == PartsSpec => []PartsIInv
<1> QED BY PartsInitially, PartsStep, PTL DEF PartsSpec

(* Objects of slabs overlap neither each other nor the header of their     *)
(* chunk nor its end, for all size classes and any number of objects.      *)
THEOREM ThreadObjectsApart == PartsSpec => []ObjectsApart
<1>1. PartsIInv => ObjectsApart
  BY MediumApart, SmallApart DEF PartsIInv, ObjectsApart
<1> QED BY <1>1, PartsInvariant, PTL

(* The list through a small slab's objects has its free ones, whatever     *)
(* their last holders wrote into them; a slab is in its owner's list       *)
(* exactly while it has a free object; and no node of the remote_cache is  *)
(* in two lists, although nodes are appended that still have the link of   *)
(* the list they come from.                                                *)
THEOREM ThreadListsAgree == PartsSpec => []ListsAgree
<1>1. PartsIInv => ListsAgree
  BY MediumApart, SmallListsRight, RemoteApart DEF PartsIInv, ListsAgree
<1> QED BY <1>1, PartsInvariant, PTL

(* Freeing an object of a medium slab, whose pages are then given back,    *)
(* takes no memory from another one, nor from the header.                  *)
THEOREM ThreadHeldUndisturbed == PartsSpec => HeldUndisturbed
<1> DEFINE used == {Medium!Header} \cup UNION {Medium!PagesOf(o) : o \in held \cap held'}
<1>1. PartsIInv /\ [PartsNext]_all_vars => [committed \cap used \subseteq committed']_(Medium!vars)
  BY PartsShare, MediumUndisturbed DEF PartsIInv
<1> QED BY <1>1, PartsInvariant, PTL DEF PartsSpec, HeldUndisturbed, Medium!HeldUndisturbed

(* A medium slab's stack of offsets, and the list through the objects of a *)
(* small slab, implement a set of free objects from which an allocation    *)
(* takes one and to which a free returns it.                               *)
THEOREM ThreadImplementsSlab == PartsSpec => ImplementsSlab
<1>1. PartsInit => /\ Medium!Abstract!Init
                   /\ \A i \in Small!Indexes : Small!Abstract(i)!Init
  <2> SUFFICES ASSUME PartsInit
               PROVE  /\ Medium!Abstract!Init
                      /\ \A i \in Small!Indexes : Small!Abstract(i)!Init
    OBVIOUS
  <2>1. MediumIInv /\ held = {}
    BY MediumInitially DEF PartsInit, Medium!Init
  <2>2. Medium!free \subseteq 0 .. LargeThreshold - 1
    BY <2>1, MediumInRange, MediumTables DEF MediumIInv, MediumStack, MediumTypes, Medium!free
  <2>3. SmallIInv /\ \A i \in Small!Indexes : SmallNodes(i) = {} /\ Small!HeldOf(i) = {}
    BY SmallInitially DEF PartsInit
  <2>4. \A i \in Small!Indexes : Small!FreeOf(i) = {}
    BY <2>3, SmallFreeOf DEF SmallWalks
  <2> QED BY <2>1, <2>2, <2>3, <2>4, MediumTables DEF Medium!Abstract!Init, Small!Abstract!Init
<1>2. PartsIInv /\ [PartsNext]_all_vars => [Medium!Abstract!Next]_<<Medium!free, held>>
  BY PartsShare, MediumImplements DEF PartsIInv
<1>3. PartsIInv /\ PartsIInv' /\ [PartsNext]_all_vars
        => [\A i \in Small!Indexes :
              [Small!Abstract(i)!Next]_<<Small!FreeOf(i), Small!HeldOf(i)>>]_(Small!vars)
  BY PartsShare, SmallImplements DEF PartsIInv
<1> QED BY <1>1, <1>2, <1>3, PartsInvariant, PTL
        DEF PartsSpec, ImplementsSlab, Medium!ImplementsSlab, Medium!Abstract!Spec,
            Small!ImplementsSlab

(* Lists through freed objects, of which post takes one apart, and words   *)
(* in them implement lists of messages, each of which waits in the slot of *)
(* its target until it is given away, in the order in which they came.     *)
THEOREM ThreadImplementsCache == PartsSpec => ImplementsCache
<1>1. PartsInit => Remote!Abstract!Init
  BY CacheInitially DEF PartsInit
<1>2. PartsIInv /\ [PartsNext]_all_vars
        => [part = "remote_list" => [Remote!Abstract!Next]_(Remote!Abstract!vars)]_all_vars
  BY PartsShare, CacheImplements DEF PartsIInv
<1> QED BY <1>1, <1>2, PartsInvariant, PTL DEF PartsSpec, ImplementsCache
=============================================================================
