------------------------ MODULE ThreadAllocatorProofs ------------------------
(***************************************************************************)
(* Theorems about ThreadAllocator, for any number of threads, ids, chunks  *)
(* and objects.                                                            *)
(***************************************************************************)
EXTENDS ThreadAllocator, DataLemmas

-----------------------------------------------------------------------------
(* Slots.                                                                  *)
LEMMA SlotAtInSlots ==
  ASSUME NEW id \in Nat, NEW at \in Nat
  PROVE  SlotAt(id, at) \in RemoteSlots
<1>1. 2 ^ RemoteSlotBits \in Nat \ {0} /\ 2 ^ at \in Nat \ {0}
  BY Pow2Pos, ThreadAllocatorConstants
<1> DEFINE p == 2 ^ RemoteSlotBits
           q == 2 ^ at
<1> HIDE DEF p, q
<1>2. (id \div q) % p \in 0 .. p - 1
  BY <1>1 DEF p, q
<1> QED BY <1>2 DEF SlotAt, RemoteSlots, p, q

(* The loop by which post distributes a list: it comes to an end ...       *)
LEMMA BucketLoop ==
  ASSUME NEW l \in Seq(Messages), NEW at, NEW i
  PROVE  \E w : /\ Bucket(l, at, i) = w[Len(l)]
                /\ \A n \in 0 .. Len(l) :
                     w[n] = IF n = 0 THEN <<>>
                            ELSE IF SlotAt(l[n][2], at) = i THEN Append(w[n - 1], l[n])
                                                            ELSE w[n - 1]
<1>1. PICK m \in Nat : m = Len(l)
  BY LenProperties
<1> DEFINE G(w, n) == IF n = 0 THEN <<>>
                      ELSE IF SlotAt(l[n][2], at) = i THEN Append(w[n - 1], l[n])
                                                      ELSE w[n - 1]
           walked == CHOOSE w : w = [n \in 0 .. m |-> G(w, n)]
           keep == {n \in 1 .. m : SlotAt(l[n][2], at) = i}
<1>2. ASSUME NEW w
      PROVE  Selects(w, l, m, keep) <=> w = [n \in 0 .. m |-> G(w, n)]
  <2>1. \A n \in 0 .. m : n # 0 => (n \in keep <=> SlotAt(l[n][2], at) = i)
    OBVIOUS
  <2> HIDE DEF keep
  <2> QED BY <2>1 DEF Selects
<1> HIDE DEF keep
<1>3. walked = [n \in 0 .. m |-> G(walked, n)]
  <2>1. \E w : Selects(w, l, m, keep)
    BY SelectLoop
  <2>2. \E w : w = [n \in 0 .. m |-> G(w, n)]
    BY <1>2, <2>1
  <2> HIDE DEF G
  <2> QED BY <2>2
<1>4. Bucket(l, at, i) = walked[m]
  BY <1>1 DEF Bucket
<1>5. \A n \in 0 .. m : walked[n] = G(walked, n)
  <2> HIDE DEF walked, G
  <2> QED BY <1>3
<1> HIDE DEF walked
<1> QED BY <1>1, <1>4, <1>5

(* ... keeps the messages that belong in the slot, and only those ...      *)
LEMMA BucketMessages ==
  ASSUME NEW l \in Seq(Messages), NEW at, NEW i
  PROVE  /\ Bucket(l, at, i) \in Seq(Messages)
         /\ \A msg \in Range(Bucket(l, at, i)) : msg \in Range(l) /\ SlotAt(msg[2], at) = i
<1>1. PICK w : /\ Bucket(l, at, i) = w[Len(l)]
               /\ \A n \in 0 .. Len(l) :
                    w[n] = IF n = 0 THEN <<>>
                           ELSE IF SlotAt(l[n][2], at) = i THEN Append(w[n - 1], l[n])
                                                           ELSE w[n - 1]
  BY BucketLoop
<1> DEFINE Good(n) == /\ w[n] \in Seq(Messages)
                      /\ \A msg \in Range(w[n]) : msg \in Range(l) /\ SlotAt(msg[2], at) = i
           Bad == {n \in Nat : n <= Len(l) /\ ~Good(n)}
<1>2. Len(l) \in Nat /\ DOMAIN l = 1 .. Len(l) /\ \A n \in 1 .. Len(l) : l[n] \in Messages
  BY LenProperties, ElementOfSeq
<1>3. Bad = {}
  <2> SUFFICES ASSUME Bad # {} PROVE FALSE
    OBVIOUS
  <2>1. PICK k \in Bad : \A m \in Bad : k <= m
    BY NatLeast
  <2>2. k \in 0 .. Len(l)
    BY <1>2
  <2>3. CASE k = 0
    <3>1. w[k] = <<>>
      BY <1>1, <2>2, <2>3
    <3>2. <<>> \in Seq(Messages) /\ Range(<<>>) = {}
      BY DEF Range
    <3> QED BY <3>1, <3>2
  <2>4. CASE k # 0
    <3>1. k - 1 \in Nat /\ k - 1 <= Len(l) /\ ~(k <= k - 1) /\ k \in DOMAIN l /\ l[k] \in Messages
      BY <1>2, <2>2, <2>4
    <3>2. Good(k - 1)
      <4>1. k - 1 \notin Bad
        BY <2>1, <3>1
      <4> QED BY <3>1, <4>1
    <3>3. l[k] \in Range(l)
      BY <3>1 DEF Range
    <3>4. CASE SlotAt(l[k][2], at) = i
      <4>1. w[k] = Append(w[k - 1], l[k])
        BY <1>1, <2>2, <2>4, <3>4
      <4>2. w[k] \in Seq(Messages) /\ Range(w[k]) = Range(w[k - 1]) \cup {l[k]}
        BY <3>1, <3>2, <4>1, SeqAppend
      <4>3. Good(k)
        BY <3>2, <3>3, <3>4, <4>2
      <4> QED BY <4>3
    <3>5. CASE SlotAt(l[k][2], at) # i
      <4>1. w[k] = w[k - 1]
        BY <1>1, <2>2, <2>4, <3>5
      <4> QED BY <3>2, <4>1
    <3> QED BY <3>4, <3>5
  <2> QED BY <2>3, <2>4
<1>4. Good(Len(l))
  BY <1>2, <1>3
<1> QED BY <1>1, <1>4

(* ... and puts the only message for an object in one place.               *)
OnlyAt(l, obj, k) == /\ k \in DOMAIN l /\ l[k][1] = obj
                     /\ \A n \in DOMAIN l : l[n][1] = obj => n = k

OnlyIn(l, at, obj, slot, m) ==
  \A i, n : n \in DOMAIN Bucket(l, at, i) /\ Bucket(l, at, i)[n][1] = obj <=> i = slot /\ n = m

(* Distributing a slot leaves each of its messages in one place, in the    *)
(* slot its target says.                                                   *)
LEMMA BucketPlace ==
  ASSUME NEW l \in Seq(Messages), NEW at, NEW obj, NEW k \in Nat, OnlyAt(l, obj, k)
  PROVE  \E m \in Nat : OnlyIn(l, at, obj, SlotAt(l[k][2], at), m)
<1>0. k \in DOMAIN l /\ l[k][1] = obj /\ \A n \in DOMAIN l : l[n][1] = obj => n = k
  BY DEF OnlyAt
<1> DEFINE here == SlotAt(l[k][2], at)
<1>1. PICK w : /\ Bucket(l, at, here) = w[Len(l)]
               /\ \A n \in 0 .. Len(l) :
                    w[n] = IF n = 0 THEN <<>>
                           ELSE IF SlotAt(l[n][2], at) = here THEN Append(w[n - 1], l[n])
                                                              ELSE w[n - 1]
  BY BucketLoop
<1> DEFINE Good(n) ==
             /\ w[n] \in Seq(Messages)
             /\ n < k => \A j \in DOMAIN w[n] : w[n][j][1] # obj
             /\ n >= k => \E m \in Nat : \A j : j \in DOMAIN w[n] /\ w[n][j][1] = obj <=> j = m
           Bad == {n \in Nat : n <= Len(l) /\ ~Good(n)}
<1>2. Len(l) \in Nat /\ DOMAIN l = 1 .. Len(l) /\ \A n \in 1 .. Len(l) : l[n] \in Messages
  BY LenProperties, ElementOfSeq
<1>3. Bad = {}
  <2> SUFFICES ASSUME Bad # {} PROVE FALSE
    OBVIOUS
  <2>1. PICK b \in Bad : \A m \in Bad : b <= m
    BY NatLeast
  <2>2. b \in 0 .. Len(l) /\ b \in Nat /\ k \in Nat /\ k >= 1
    BY <1>0, <1>2
  <2>3. CASE b = 0
    <3>1. w[b] = <<>>
      BY <1>1, <2>2, <2>3
    <3>2. <<>> \in Seq(Messages) /\ DOMAIN <<>> = {}
      OBVIOUS
    <3>3. Good(b)
      BY <2>2, <2>3, <3>1, <3>2
    <3> QED BY <3>3
  <2>4. CASE b # 0
    <3>1. b - 1 \in Nat /\ b - 1 <= Len(l) /\ ~(b <= b - 1) /\ b \in DOMAIN l /\ l[b] \in Messages
      BY <1>2, <2>2, <2>4
    <3>2. Good(b - 1)
      <4>1. b - 1 \notin Bad
        BY <2>1, <3>1
      <4> QED BY <3>1, <4>1
    <3>3. CASE SlotAt(l[b][2], at) = here
      <4>1. w[b] = Append(w[b - 1], l[b])
        BY <1>1, <2>2, <2>4, <3>3
      <4> DEFINE v == w[b - 1]
      <4>2. /\ w[b] \in Seq(Messages)
            /\ DOMAIN w[b] = 1 .. Len(v) + 1 /\ DOMAIN v = 1 .. Len(v) /\ Len(v) \in Nat
            /\ \A n \in DOMAIN v : w[b][n] = v[n]
            /\ w[b][Len(v) + 1] = l[b]
        <5>1. v \in Seq(Messages)
          BY <3>2
        <5> HIDE DEF v
        <5> QED BY <3>1, <4>1, <5>1, SeqAppend, LenProperties DEF v
      <4>3. CASE b < k
        <5>1. l[b][1] # obj
          BY <1>0, <2>2, <3>1, <4>3
        <5>2. \A j \in DOMAIN v : v[j][1] # obj
          BY <2>2, <3>2, <4>3
        <5>3. \A j \in DOMAIN w[b] : w[b][j][1] # obj
          <6> HIDE DEF v
          <6> QED BY <4>2, <5>1, <5>2
        <5>9. Good(b)
          BY <2>2, <4>2, <4>3, <5>3
        <5> QED BY <5>9
      <4>4. CASE b = k
        <5>1. \A j \in DOMAIN v : v[j][1] # obj
          BY <2>2, <3>2, <4>4
        <5>3. l[b][1] = obj
          BY <1>0, <4>4
        <5>2. \A j : j \in DOMAIN w[b] /\ w[b][j][1] = obj <=> j = Len(v) + 1
          <6> HIDE DEF v
          <6>1. \A j : j \in DOMAIN w[b] <=> j \in DOMAIN v \/ j = Len(v) + 1
            BY <4>2
          <6>2. \A j \in DOMAIN v : w[b][j][1] # obj
            BY <4>2, <5>1
          <6>3. w[b][Len(v) + 1][1] = obj
            BY <4>2, <5>3
          <6> QED BY <6>1, <6>2, <6>3
        <5>4. \E m \in Nat : \A j : j \in DOMAIN w[b] /\ w[b][j][1] = obj <=> j = m
          <6>1. Len(v) + 1 \in Nat
            BY <4>2
          <6> HIDE DEF v
          <6> QED BY <5>2, <6>1
        <5>5. ~(b < k) /\ w[b] \in Seq(Messages)
          BY <2>2, <4>2, <4>4
        <5>6. Good(b)
          <6> HIDE DEF v
          <6> QED BY <5>4, <5>5
        <5> QED BY <5>6
      <4>5. CASE b > k
        <5>1. l[b][1] # obj
          BY <1>0, <2>2, <3>1, <4>5
        <5>2. PICK m \in Nat : \A j : j \in DOMAIN v /\ v[j][1] = obj <=> j = m
          BY <2>2, <3>2, <4>5
        <5>3. \A j : j \in DOMAIN w[b] <=> j \in DOMAIN v \/ j = Len(v) + 1
          <6> HIDE DEF v
          <6> QED BY <4>2
        <5>4. \A j : j \in DOMAIN w[b] /\ w[b][j][1] = obj <=> j = m
          <6> HIDE DEF v
          <6> QED BY <4>2, <5>1, <5>2, <5>3
        <5>9. Good(b)
          <6>1. ~(b < k)
            BY <2>2, <4>5
          <6>2. w[b] \in Seq(Messages)
            BY <4>2
          <6>3. \E j \in Nat : \A n : n \in DOMAIN w[b] /\ w[b][n][1] = obj <=> n = j
            BY <5>2, <5>4
          <6> QED BY <6>1, <6>2, <6>3
        <5> QED BY <5>9
      <4> QED BY <2>2, <4>3, <4>4, <4>5
    <3>4. CASE SlotAt(l[b][2], at) # here
      <4>1. w[b] = w[b - 1] /\ b # k
        BY <1>1, <2>2, <2>4, <3>4
      <4>2. Good(b)
        BY <2>2, <3>2, <4>1
      <4> QED BY <4>2
    <3> QED BY <3>3, <3>4
  <2> QED BY <2>3, <2>4
<1>4. k \in Nat /\ Len(l) >= k
  BY <1>0, <1>2
<1>5. PICK m \in Nat : \A j : j \in DOMAIN w[Len(l)] /\ w[Len(l)][j][1] = obj <=> j = m
  <2>1. Good(Len(l))
    BY <1>2, <1>3
  <2> QED BY <1>4, <2>1
<1>6. ASSUME NEW i, i # here, NEW n \in DOMAIN Bucket(l, at, i)
      PROVE  Bucket(l, at, i)[n][1] # obj
  <2>1. Bucket(l, at, i)[n] \in Range(Bucket(l, at, i))
    BY DEF Range
  <2>2. Bucket(l, at, i)[n] \in Range(l) /\ SlotAt(Bucket(l, at, i)[n][2], at) = i
    BY <2>1, BucketMessages
  <2>3. PICK j \in DOMAIN l : Bucket(l, at, i)[n] = l[j]
    BY <2>2 DEF Range
  <2> QED BY <1>0, <1>6, <2>2, <2>3
<1> HIDE DEF here
<1>7. \A i, n : n \in DOMAIN Bucket(l, at, i) /\ Bucket(l, at, i)[n][1] = obj
                <=> i = here /\ n = m
  BY <1>1, <1>5, <1>6
<1>8. OnlyIn(l, at, obj, SlotAt(l[k][2], at), m)
  BY <1>7 DEF here, OnlyIn
<1> QED BY <1>8

-----------------------------------------------------------------------------
(* The inductive invariant.  Its parts, beside those the runs check:       *)

(* What a thread does says which of its locals are in use. *)
Control ==
  \A t \in Threads :
    /\ pc[t] # "post" => shift[t] = 0 /\ then[t] = "idle"
    /\ op[t] # <<>> <=> pc[t] \in {"handle", "body"} \/ (pc[t] = "post" /\ then[t] = "body")

(* An id belongs to one thread, or is once in the pool. *)
IdsApart ==
  /\ \A t, u \in Threads : remote_alloc[t] # NoId /\ t # u => remote_alloc[t] # remote_alloc[u]
  /\ IsInjective(pooled)
  /\ \A t \in Threads : remote_alloc[t] \notin Range(pooled)

(* Slabs in use are parts of reserved chunks, whose owners are known, and  *)
(* headquarters' unused meta_slabs are those after the used ones.          *)
SlabsOwned ==
  /\ \A k \in Chunks :
       /\ owner[k] = NoId <=> kind[k] = "Wild"
       /\ owner[k] # NoId =>
            owner[k] \in Range(pooled) \/ \E t \in Threads : remote_alloc[t] = owner[k]
  /\ \A s \in Slabs : class[s] # "none" =>
       owner[s[1]] # NoId /\ (kind[s[1]] = "Small" => s[2] <= used[s[1]])
  /\ \A t \in Threads :
       /\ IsInjective(headquarter[t])
       /\ \A k \in Range(headquarter[t]) : kind[k] = "Small"

(* The slabs that a thread leaves behind when it exits: those that are     *)
(* available are orphaned and stay so.                                     *)
LeftBehind ==
  /\ \A s \in orphaned : class[s] # "none" /\ free[s] # {}
  /\ \A s \in Slabs : class[s] # "none" /\ owner[s[1]] \in Range(pooled) =>
       free[s] = {} \/ s \in orphaned

(* Messages in a queue are for the owner of their object's slab. *)
QueuedForOwner ==
  \A id \in Ids : \A msg \in Range(queue[id]) : msg[2] = owner[msg[1][1]]

(* A thread that ends has no messages, and one that posts has none that it *)
(* counts. *)
CacheEmptied ==
  \A t \in Threads :
    /\ pc[t] \in {"off", "release"} => cache[t] = NoMessages
    /\ pc[t] = "post" => cache_size[t] = 0

(* An object is in one place, or its slab is not in use. *)
Placed ==
  \A obj \in Objects :
    IF class[SlabOf(obj)] = "none" THEN PlacesOf(obj) = {}
                                   ELSE \E p \in PlacesOf(obj) : PlacesOf(obj) = {p}

IInv == /\ TypeOK
        /\ Control
        /\ IdsApart
        /\ SlabsOwned
        /\ ListedIffAvailable
        /\ LeftBehind
        /\ QueuedForOwner
        /\ CachedForOthers
        /\ CacheAccounted
        /\ CacheEmptied
        /\ Placed

-----------------------------------------------------------------------------
(* The places of an object, kind by kind, in a state that is given by the  *)
(* values of op, cache, queue, free and live: the calls that free it, and  *)
(* where it is in caches and in queues.                                    *)
Calls(o, obj) == {t \in Threads : o[t] = <<"dealloc", obj>>}

CachedAt(ca, obj) ==
  {p \in Threads \X RemoteSlots \X Nat :
     p[3] \in DOMAIN ca[p[1]][p[2]] /\ ca[p[1]][p[2]][p[3]][1] = obj}

QueuedAt(qu, obj) ==
  {p \in Ids \X Nat : p[2] \in DOMAIN qu[p[1]] /\ qu[p[1]][p[2]][1] = obj}

Nowhere(o, ca, qu, fr, lv, obj) ==
  /\ obj \notin lv /\ obj \notin fr[SlabOf(obj)]
  /\ Calls(o, obj) = {} /\ CachedAt(ca, obj) = {} /\ QueuedAt(qu, obj) = {}

Somewhere(o, ca, qu, fr, lv, obj) ==
  \/ /\ obj \in lv /\ obj \notin fr[SlabOf(obj)]
     /\ Calls(o, obj) = {} /\ CachedAt(ca, obj) = {} /\ QueuedAt(qu, obj) = {}
  \/ /\ obj \notin lv /\ obj \in fr[SlabOf(obj)]
     /\ Calls(o, obj) = {} /\ CachedAt(ca, obj) = {} /\ QueuedAt(qu, obj) = {}
  \/ /\ obj \notin lv /\ obj \notin fr[SlabOf(obj)]
     /\ \E t : Calls(o, obj) = {t}
     /\ CachedAt(ca, obj) = {} /\ QueuedAt(qu, obj) = {}
  \/ /\ obj \notin lv /\ obj \notin fr[SlabOf(obj)]
     /\ Calls(o, obj) = {} /\ QueuedAt(qu, obj) = {}
     /\ \E p : CachedAt(ca, obj) = {p}
  \/ /\ obj \notin lv /\ obj \notin fr[SlabOf(obj)]
     /\ Calls(o, obj) = {} /\ CachedAt(ca, obj) = {}
     /\ \E p : QueuedAt(qu, obj) = {p}

CacheType == [Threads -> [RemoteSlots -> Seq(Messages)]]
QueueType == [Ids -> Seq(Messages)]

(* What PlacesOf says in these terms.                                      *)
PlacesIn(o, ca, qu, fr, lv, obj) ==
  {<<"held">> : x \in lv \cap {obj}}
  \cup {<<"free">> : x \in fr[SlabOf(obj)] \cap {obj}}
  \cup {<<"call", t>> : t \in {t \in Threads : o[t] = <<"dealloc", obj>>}}
  \cup (UNION {UNION {{<<"cache", t, i, n>> :
                           n \in {n \in DOMAIN ca[t][i] : ca[t][i][n][1] = obj}} :
                         i \in RemoteSlots} : t \in Threads})
  \cup (UNION {{<<"queue", id, n>> : n \in {n \in DOMAIN qu[id] : qu[id][n][1] = obj}} : id \in Ids})

(* An object has no place, or one, as the kinds of places say one by one.  *)
LEMMA PlacesCount ==
  ASSUME NEW o, NEW ca \in CacheType, NEW qu \in QueueType, NEW fr, NEW lv, NEW obj
  PROVE  /\ PlacesIn(o, ca, qu, fr, lv, obj) = {} <=> Nowhere(o, ca, qu, fr, lv, obj)
         /\ (\E x \in PlacesIn(o, ca, qu, fr, lv, obj) : PlacesIn(o, ca, qu, fr, lv, obj) = {x})
              <=> Somewhere(o, ca, qu, fr, lv, obj)
<1> DEFINE P == PlacesIn(o, ca, qu, fr, lv, obj)
<1>0. \A x : x \in P <=>
        \/ x = <<"held">> /\ obj \in lv
        \/ x = <<"free">> /\ obj \in fr[SlabOf(obj)]
        \/ \E t \in Calls(o, obj) : x = <<"call", t>>
        \/ \E p \in CachedAt(ca, obj) : x = <<"cache", p[1], p[2], p[3]>>
        \/ \E p \in QueuedAt(qu, obj) : x = <<"queue", p[1], p[2]>>
  <2> DEFINE A == {<<"held">> : x \in lv \cap {obj}}
             B == {<<"free">> : x \in fr[SlabOf(obj)] \cap {obj}}
             C == {<<"call", t>> : t \in {t \in Threads : o[t] = <<"dealloc", obj>>}}
             D == UNION {UNION {{<<"cache", t, i, n>> :
                                   n \in {n \in DOMAIN ca[t][i] : ca[t][i][n][1] = obj}} :
                                 i \in RemoteSlots} : t \in Threads}
             E == UNION {{<<"queue", id, n>> : n \in {n \in DOMAIN qu[id] : qu[id][n][1] = obj}} : id \in Ids}
  <2>1. \A x : x \in A <=> x = <<"held">> /\ obj \in lv
    OBVIOUS
  <2>2. \A x : x \in B <=> x = <<"free">> /\ obj \in fr[SlabOf(obj)]
    OBVIOUS
  <2>3. \A x : x \in C <=> \E t \in Calls(o, obj) : x = <<"call", t>>
    BY DEF Calls
  <2>4. \A x : x \in D <=> \E p \in CachedAt(ca, obj) : x = <<"cache", p[1], p[2], p[3]>>
    <3>1. \A t \in Threads, i \in RemoteSlots : DOMAIN ca[t][i] \subseteq Nat
      <4> TAKE t \in Threads, i \in RemoteSlots
      <4>1. ca[t][i] \in Seq(Messages)
        BY DEF CacheType
      <4> QED BY <4>1, LenProperties
    <3>2. ASSUME NEW x \in D
          PROVE  \E p \in CachedAt(ca, obj) : x = <<"cache", p[1], p[2], p[3]>>
      <4>1. PICK t \in Threads, i \in RemoteSlots :
              \E n \in DOMAIN ca[t][i] : ca[t][i][n][1] = obj /\ x = <<"cache", t, i, n>>
        OBVIOUS
      <4>3. PICK n \in DOMAIN ca[t][i] : ca[t][i][n][1] = obj /\ x = <<"cache", t, i, n>>
        BY <4>1
      <4>2. <<t, i, n>> \in CachedAt(ca, obj)
        BY <3>1, <4>3 DEF CachedAt
      <4> QED BY <4>2, <4>3
    <3>3. ASSUME NEW p \in CachedAt(ca, obj)
          PROVE  <<"cache", p[1], p[2], p[3]>> \in D
      <4>1. /\ p[1] \in Threads /\ p[2] \in RemoteSlots
            /\ p[3] \in DOMAIN ca[p[1]][p[2]] /\ ca[p[1]][p[2]][p[3]][1] = obj
        BY DEF CachedAt
      <4>2. <<"cache", p[1], p[2], p[3]>>
              \in {<<"cache", p[1], p[2], n>> : n \in {n \in DOMAIN ca[p[1]][p[2]] : ca[p[1]][p[2]][n][1] = obj}}
        BY <4>1
      <4>3. \A t \in Threads, i \in RemoteSlots :
              {<<"cache", t, i, n>> : n \in {n \in DOMAIN ca[t][i] : ca[t][i][n][1] = obj}} \subseteq D
        OBVIOUS
      <4> HIDE DEF D
      <4> QED BY <4>1, <4>2, <4>3
    <3> HIDE DEF D
    <3> QED BY <3>2, <3>3
  <2>5. \A x : x \in E <=> \E p \in QueuedAt(qu, obj) : x = <<"queue", p[1], p[2]>>
    <3>1. \A id \in Ids : DOMAIN qu[id] \subseteq Nat
      <4> TAKE id \in Ids
      <4>1. qu[id] \in Seq(Messages)
        BY DEF QueueType
      <4> QED BY <4>1, LenProperties
    <3>2. ASSUME NEW x \in E
          PROVE  \E p \in QueuedAt(qu, obj) : x = <<"queue", p[1], p[2]>>
      <4>1. PICK id \in Ids : \E n \in DOMAIN qu[id] : qu[id][n][1] = obj /\ x = <<"queue", id, n>>
        OBVIOUS
      <4>3. PICK n \in DOMAIN qu[id] : qu[id][n][1] = obj /\ x = <<"queue", id, n>>
        BY <4>1
      <4>2. <<id, n>> \in QueuedAt(qu, obj)
        BY <3>1, <4>3 DEF QueuedAt
      <4> QED BY <4>2, <4>3
    <3>3. ASSUME NEW p \in QueuedAt(qu, obj)
          PROVE  <<"queue", p[1], p[2]>> \in E
      <4>1. p[1] \in Ids /\ p[2] \in DOMAIN qu[p[1]] /\ qu[p[1]][p[2]][1] = obj
        BY DEF QueuedAt
      <4> QED BY <4>1
    <3> HIDE DEF E
    <3> QED BY <3>2, <3>3
  <2>6. PlacesIn(o, ca, qu, fr, lv, obj) = A \cup B \cup C \cup D \cup E
    BY DEF PlacesIn
  <2> HIDE DEF A, B, C, D, E
  <2> QED BY <2>1, <2>2, <2>3, <2>4, <2>5, <2>6
<1> DEFINE h == obj \in lv
           f == obj \in fr[SlabOf(obj)]
           C == Calls(o, obj)
           K == CachedAt(ca, obj)
           Q == QueuedAt(qu, obj)
<1>2. /\ \A p \in K : p = <<p[1], p[2], p[3]>>
      /\ \A p \in Q : p = <<p[1], p[2]>>
  BY DEF CachedAt, QueuedAt
<1> HIDE DEF P, h, f, C, K, Q
<1>1. /\ <<"held">> \in P <=> h
      /\ <<"free">> \in P <=> f
      /\ \A t \in C : <<"call", t>> \in P
      /\ \A p \in K : <<"cache", p[1], p[2], p[3]>> \in P
      /\ \A p \in Q : <<"queue", p[1], p[2]>> \in P
      /\ \A x \in P :
           \/ x = <<"held">> /\ h
           \/ x = <<"free">> /\ f
           \/ \E t \in C : x = <<"call", t>>
           \/ \E p \in K : x = <<"cache", p[1], p[2], p[3]>>
           \/ \E p \in Q : x = <<"queue", p[1], p[2]>>
  BY <1>0 DEF h, f, C, K, Q
<1>3. P = {} <=> ~h /\ ~f /\ C = {} /\ K = {} /\ Q = {}
  BY <1>1
<1>4. ASSUME NEW x \in P, P = {x}
      PROVE  \/ h /\ ~f /\ C = {} /\ K = {} /\ Q = {}
             \/ ~h /\ f /\ C = {} /\ K = {} /\ Q = {}
             \/ ~h /\ ~f /\ (\E t : C = {t}) /\ K = {} /\ Q = {}
             \/ ~h /\ ~f /\ C = {} /\ Q = {} /\ (\E p : K = {p})
             \/ ~h /\ ~f /\ C = {} /\ K = {} /\ (\E p : Q = {p})
  <2>1. \A y \in P : y = x
    BY <1>4
  <2>2. CASE x = <<"held">>
    BY <1>1, <2>1, <2>2
  <2>3. CASE x = <<"free">>
    BY <1>1, <2>1, <2>3
  <2>4. ASSUME NEW t \in C, x = <<"call", t>>
        PROVE  ~h /\ ~f /\ C = {t} /\ K = {} /\ Q = {}
    BY <1>1, <2>1, <2>4
  <2>5. ASSUME NEW p \in K, x = <<"cache", p[1], p[2], p[3]>>
        PROVE  ~h /\ ~f /\ C = {} /\ K = {p} /\ Q = {}
    <3>1. ASSUME NEW q \in K PROVE q = p
      <4>1. <<"cache", q[1], q[2], q[3]>> = <<"cache", p[1], p[2], p[3]>>
        BY <1>1, <2>1, <2>5
      <4> QED BY <4>1, <1>2
    <3> QED BY <1>1, <2>1, <2>5, <3>1
  <2>6. ASSUME NEW p \in Q, x = <<"queue", p[1], p[2]>>
        PROVE  ~h /\ ~f /\ C = {} /\ K = {} /\ Q = {p}
    <3>1. ASSUME NEW q \in Q PROVE q = p
      <4>1. <<"queue", q[1], q[2]>> = <<"queue", p[1], p[2]>>
        BY <1>1, <2>1, <2>6
      <4> QED BY <4>1, <1>2
    <3> QED BY <1>1, <2>1, <2>6, <3>1
  <2> QED BY <1>1, <2>2, <2>3, <2>4, <2>5, <2>6
<1>5. ASSUME \/ h /\ ~f /\ C = {} /\ K = {} /\ Q = {}
             \/ ~h /\ f /\ C = {} /\ K = {} /\ Q = {}
             \/ ~h /\ ~f /\ (\E t : C = {t}) /\ K = {} /\ Q = {}
             \/ ~h /\ ~f /\ C = {} /\ Q = {} /\ (\E p : K = {p})
             \/ ~h /\ ~f /\ C = {} /\ K = {} /\ (\E p : Q = {p})
      PROVE  \E x \in P : P = {x}
  <2>1. CASE h /\ ~f /\ C = {} /\ K = {} /\ Q = {}
    <3>1. \A x \in P : x = <<"held">>
      BY <1>1, <2>1
    <3> QED BY <1>1, <2>1, <3>1
  <2>2. CASE ~h /\ f /\ C = {} /\ K = {} /\ Q = {}
    <3>1. \A x \in P : x = <<"free">>
      BY <1>1, <2>2
    <3> QED BY <1>1, <2>2, <3>1
  <2>3. ASSUME ~h, ~f, NEW t, C = {t}, K = {}, Q = {}
        PROVE  \E x \in P : P = {x}
    <3>1. \A x \in P : x = <<"call", t>>
      BY <1>1, <2>3
    <3>2. <<"call", t>> \in P
      BY <1>1, <2>3
    <3> QED BY <3>1, <3>2
  <2>4. ASSUME ~h, ~f, C = {}, NEW p, K = {p}, Q = {}
        PROVE  \E x \in P : P = {x}
    <3>1. \A x \in P : x = <<"cache", p[1], p[2], p[3]>>
      BY <1>1, <2>4
    <3>2. <<"cache", p[1], p[2], p[3]>> \in P
      BY <1>1, <2>4
    <3> QED BY <3>1, <3>2
  <2>5. ASSUME ~h, ~f, C = {}, K = {}, NEW p, Q = {p}
        PROVE  \E x \in P : P = {x}
    <3>1. \A x \in P : x = <<"queue", p[1], p[2]>>
      BY <1>1, <2>5
    <3>2. <<"queue", p[1], p[2]>> \in P
      BY <1>1, <2>5
    <3> QED BY <3>1, <3>2
  <2> QED BY <1>5, <2>1, <2>2, <2>3, <2>4, <2>5
<1> QED BY <1>3, <1>4, <1>5 DEF P, h, f, C, K, Q, Nowhere, Somewhere
-----------------------------------------------------------------------------
(* Placed, kind of place by kind of place.                                 *)
PlacedByKind ==
  \A obj \in Objects :
    IF class[SlabOf(obj)] = "none" THEN Nowhere(op, cache, queue, free, live, obj)
                                   ELSE Somewhere(op, cache, queue, free, live, obj)

(* In a state with the right types Placed can be told kind by kind,        *)
LEMMA PlacedKinds ==
  ASSUME TypeOK
  PROVE  Placed <=> PlacedByKind
<1>1. cache \in CacheType /\ queue \in QueueType
  BY DEF TypeOK, CacheType, QueueType
<1>2. ASSUME NEW obj \in Objects
      PROVE  /\ PlacesOf(obj) = {} <=> Nowhere(op, cache, queue, free, live, obj)
             /\ (\E p \in PlacesOf(obj) : PlacesOf(obj) = {p})
                  <=> Somewhere(op, cache, queue, free, live, obj)
  <2>1. PlacesOf(obj) = PlacesIn(op, cache, queue, free, live, obj)
    BY DEF PlacesOf, PlacesIn
  <2> QED BY <1>1, <2>1, PlacesCount
<1> QED BY <1>2 DEF Placed, PlacedByKind

(* in the next state too.                                                  *)
LEMMA PlacedKindsNext ==
  ASSUME TypeOK'
  PROVE  Placed' <=> PlacedByKind'
<1>1. cache' \in CacheType /\ queue' \in QueueType
  BY DEF TypeOK, CacheType, QueueType
<1>2. ASSUME NEW obj \in Objects
      PROVE  /\ PlacesOf(obj)' = {} <=> Nowhere(op', cache', queue', free', live', obj)
             /\ (\E p \in PlacesOf(obj)' : PlacesOf(obj)' = {p})
                  <=> Somewhere(op', cache', queue', free', live', obj)
  <2>1. PlacesOf(obj)' = PlacesIn(op', cache', queue', free', live', obj)
    BY DEF PlacesOf, PlacesIn, SlabOf
  <2> QED BY <1>1, <2>1, PlacesCount
<1> QED BY <1>2 DEF Placed, PlacedByKind, Nowhere, Somewhere, SlabOf

(* An object lies in a slab of its chunk.                                  *)
LEMMA ObjectFacts ==
  ASSUME NEW obj \in Objects
  PROVE  /\ SlabOf(obj) \in Slabs /\ obj \in ObjectsOf(SlabOf(obj))
         /\ obj[1] \in Chunks /\ SlabOf(obj)[1] = obj[1]
BY DEF Objects, Slabs, SlabOf, ObjectsOf

(* What lies in a slab is an object of that slab.                          *)
LEMMA SlabFacts ==
  ASSUME NEW s \in Slabs, NEW obj \in ObjectsOf(s)
  PROVE  obj \in Objects /\ SlabOf(obj) = s
BY DEF Objects, Slabs, SlabOf, ObjectsOf

(* An object that is in one place is in no other.                          *)
LEMMA InQueue ==
  ASSUME TypeOK, PlacedByKind, NEW id \in Ids, NEW n \in DOMAIN queue[id],
         NEW obj, obj = queue[id][n][1]
  PROVE  /\ queue[id][n] \in Messages /\ obj \in Objects /\ class[SlabOf(obj)] # "none"
         /\ obj \notin live /\ obj \notin free[SlabOf(obj)]
         /\ Calls(op, obj) = {} /\ CachedAt(cache, obj) = {}
         /\ QueuedAt(queue, obj) = {<<id, n>>}
<1>1. queue[id] \in Seq(Messages) /\ n \in Nat /\ queue[id][n] \in Messages
  <2>1. queue[id] \in Seq(Messages)
    BY DEF TypeOK
  <2> QED BY <2>1, LenProperties, ElementOfSeq
<1>2. obj \in Objects
  BY <1>1 DEF Messages
<1>3. <<id, n>> \in QueuedAt(queue, obj)
  BY <1>1 DEF QueuedAt
<1>4. IF class[SlabOf(obj)] = "none" THEN Nowhere(op, cache, queue, free, live, obj)
                                     ELSE Somewhere(op, cache, queue, free, live, obj)
  BY <1>2 DEF PlacedByKind
<1> QED BY <1>1, <1>2, <1>3, <1>4 DEF Nowhere, Somewhere

(* An object in a cached message is nowhere else.                          *)
LEMMA InCache ==
  ASSUME TypeOK, PlacedByKind, NEW t \in Threads, NEW i \in RemoteSlots, NEW n \in DOMAIN cache[t][i],
         NEW obj, obj = cache[t][i][n][1]
  PROVE  /\ cache[t][i][n] \in Messages /\ obj \in Objects /\ class[SlabOf(obj)] # "none"
         /\ obj \notin live /\ obj \notin free[SlabOf(obj)]
         /\ Calls(op, obj) = {} /\ QueuedAt(queue, obj) = {}
         /\ CachedAt(cache, obj) = {<<t, i, n>>}
<1>1. cache[t][i] \in Seq(Messages) /\ n \in Nat /\ cache[t][i][n] \in Messages
  <2>1. cache[t][i] \in Seq(Messages)
    BY DEF TypeOK
  <2> QED BY <2>1, LenProperties, ElementOfSeq
<1>2. obj \in Objects
  BY <1>1 DEF Messages
<1>3. <<t, i, n>> \in CachedAt(cache, obj)
  BY <1>1 DEF CachedAt
<1>4. IF class[SlabOf(obj)] = "none" THEN Nowhere(op, cache, queue, free, live, obj)
                                     ELSE Somewhere(op, cache, queue, free, live, obj)
  BY <1>2 DEF PlacedByKind
<1> QED BY <1>1, <1>2, <1>3, <1>4 DEF Nowhere, Somewhere

(* An object that a call is to free is nowhere else.                       *)
LEMMA InCall ==
  ASSUME PlacedByKind, NEW t \in Threads, NEW obj \in Objects, op[t] = <<"dealloc", obj>>
  PROVE  /\ class[SlabOf(obj)] # "none"
         /\ obj \notin live /\ obj \notin free[SlabOf(obj)]
         /\ CachedAt(cache, obj) = {} /\ QueuedAt(queue, obj) = {}
         /\ Calls(op, obj) = {t}
<1>1. t \in Calls(op, obj)
  BY DEF Calls
<1>2. IF class[SlabOf(obj)] = "none" THEN Nowhere(op, cache, queue, free, live, obj)
                                     ELSE Somewhere(op, cache, queue, free, live, obj)
  BY DEF PlacedByKind
<1> QED BY <1>1, <1>2 DEF Nowhere, Somewhere

(* A free object is nowhere else.                                          *)
LEMMA InSlab ==
  ASSUME TypeOK, PlacedByKind, NEW s \in Slabs, NEW obj \in free[s]
  PROVE  /\ class[s] # "none" /\ obj \in Objects /\ SlabOf(obj) = s
         /\ obj \notin live
         /\ Calls(op, obj) = {} /\ CachedAt(cache, obj) = {} /\ QueuedAt(queue, obj) = {}
<1>1. obj \in Objects /\ SlabOf(obj) = s
  BY SlabFacts DEF TypeOK
<1>2. IF class[SlabOf(obj)] = "none" THEN Nowhere(op, cache, queue, free, live, obj)
                                     ELSE Somewhere(op, cache, queue, free, live, obj)
  BY <1>1 DEF PlacedByKind
<1> QED BY <1>1, <1>2 DEF Nowhere, Somewhere

(* An object that a caller holds is nowhere else.                          *)
LEMMA InHands ==
  ASSUME TypeOK, PlacedByKind, NEW obj \in live
  PROVE  /\ obj \in Objects /\ class[SlabOf(obj)] # "none"
         /\ obj \notin free[SlabOf(obj)]
         /\ Calls(op, obj) = {} /\ CachedAt(cache, obj) = {} /\ QueuedAt(queue, obj) = {}
<1>1. obj \in Objects
  BY DEF TypeOK
<1>2. IF class[SlabOf(obj)] = "none" THEN Nowhere(op, cache, queue, free, live, obj)
                                     ELSE Somewhere(op, cache, queue, free, live, obj)
  BY <1>1 DEF PlacedByKind
<1> QED BY <1>1, <1>2 DEF Nowhere, Somewhere
-----------------------------------------------------------------------------
(* The steps, one by one.                                                  *)
Begins(t, o) ==
  /\ Call(t, o)
  /\ \/ \E c \in Classes : o = <<"alloc", c>>
     \/ \E obj \in live : o = <<"dealloc", obj>>
     \/ o = <<"large">>

Allocates(t, c) == op[t] = <<"alloc", c>> /\ Returns(t)

(* A step of the program, by the kinds of what a thread does.              *)
LEMMA Steps ==
  ASSUME TypeOK, Next
  PROVE  \E t \in Threads :
           \/ Start(t)
           \/ \E o \in Ops : Begins(t, o)
           \/ Process(t) \/ ProcessDone(t)
           \/ PostPush(t) \/ PostRebucket(t) \/ PostDone(t)
           \/ \E c \in Classes : Allocates(t, c) /\ AllocListed(t, c)
           \/ \E c \in Classes : Allocates(t, c) /\ AllocMetaSlab(t, c)
           \/ \E c \in Classes : Allocates(t, c) /\ AllocSmallSlab(t, c)
           \/ \E c \in Classes : Allocates(t, c) /\ AllocMediumSlab(t, c)
           \/ DeallocateOwn(t) \/ DeallocateRemote(t) \/ UseLarge(t)
           \/ Exit(t) \/ Release(t)
<1>1. PICK t \in Threads :
        \/ Start(t)
        \/ \E c \in Classes : Room /\ Call(t, <<"alloc", c>>)
        \/ \E obj \in live : Call(t, <<"dealloc", obj>>)
        \/ CallLarge(t) \/ Step(t) \/ Exit(t)
  BY DEF Next
<1>2. ASSUME NEW c \in Classes, Call(t, <<"alloc", c>>) PROVE \E o \in Ops : Begins(t, o)
  BY <1>2 DEF Begins, Ops
<1>3. ASSUME NEW obj \in live, Call(t, <<"dealloc", obj>>) PROVE \E o \in Ops : Begins(t, o)
  BY <1>3 DEF Begins, Ops, TypeOK
<1>4. ASSUME CallLarge(t) PROVE \E o \in Ops : Begins(t, o)
  BY <1>4 DEF Begins, Ops, CallLarge
<1>5. ASSUME Allocate(t)
      PROVE  \E c \in Classes : Allocates(t, c) /\ \/ AllocListed(t, c) \/ AllocMetaSlab(t, c)
                                                   \/ AllocSmallSlab(t, c) \/ AllocMediumSlab(t, c)
  <2>1. op[t] \in Ops /\ op[t] # <<>> /\ op[t][1] = "alloc"
    BY <1>5 DEF Allocate, TypeOK
  <2>2. PICK c \in Classes : op[t] = <<"alloc", c>>
    BY <2>1 DEF Ops
  <2>3. op[t][2] = c
    BY <2>2
  <2> QED BY <1>5, <2>2, <2>3 DEF Allocate, Allocates
<1> QED BY <1>1, <1>2, <1>3, <1>4, <1>5 DEF Step

(* No thread's id is the one that stands for none.                         *)
LEMMA NoIdApart == NoId \notin Ids
BY ThreadAllocatorConstants DEF NoId

(* The types hold at first.                                                *)
LEMMA TypeInit == Init => TypeOK
<1> SUFFICES ASSUME Init PROVE TypeOK
  OBVIOUS
<1>1. NoMessages \in [RemoteSlots -> Seq(Messages)]
  BY DEF NoMessages
<1>2. [c \in Classes |-> <<>>] \in [Classes -> Seq(Slabs)]
  OBVIOUS
<1> QED BY <1>1, <1>2, ThreadAllocatorConstants DEF Init, TypeOK, Ops

(* Types are kept when a thread starts,                                    *)
LEMMA TypeStart ==
  ASSUME TypeOK, NEW t \in Threads, Start(t)
  PROVE  TypeOK'
<1>1. /\ pc' = [pc EXCEPT ![t] = "idle"]
      /\ UNCHANGED <<op, then, shift, cache, cache_size, queue, lists, headquarter, owner, kind,
                     used, class, free, live, orphaned>>
  BY DEF Start, messages, slabs
<1>2. pooled' \in Seq(Ids) /\ \E id \in Ids : remote_alloc' = [remote_alloc EXCEPT ![t] = id]
  <2>1. pooled \in Seq(Ids)
    BY DEF TypeOK
  <2>2. CASE pooled # <<>>
    BY <2>1, <2>2, SeqTail DEF Start
  <2>3. CASE pooled = <<>>
    BY <2>1, <2>3 DEF Start, NeverUsed
  <2> QED BY <2>2, <2>3
<1>3. remote_alloc' \in [Threads -> Ids \cup {NoId}]
  BY <1>2 DEF TypeOK
<1>4. \A u \in Threads : remote_alloc'[u] = NoId <=> pc'[u] = "off"
  BY <1>1, <1>2, NoIdApart DEF TypeOK
<1>5. pc' \in [Threads -> {"off", "idle", "handle", "post", "body", "release"}]
  BY <1>1 DEF TypeOK
<1> QED BY <1>1, <1>2, <1>3, <1>4, <1>5 DEF TypeOK

(* when a call begins,                                                     *)
LEMMA TypeCall ==
  ASSUME TypeOK, NEW t \in Threads, NEW o \in Ops, Begins(t, o)
  PROVE  TypeOK'
<1>1. /\ pc' = [pc EXCEPT ![t] = "handle"] /\ op' = [op EXCEPT ![t] = o] /\ pc[t] = "idle"
      /\ live' \subseteq live
      /\ UNCHANGED <<then, shift, cache, cache_size, queue, lists, headquarter, owner, kind,
                     used, class, free, remote_alloc, pooled, orphaned>>
  BY DEF Begins, Call, messages, slabs
<1> QED BY <1>1 DEF TypeOK

(* The state after small_dealloc and medium_dealloc by the owner.          *)
LEMMA TypeLocalDealloc ==
  ASSUME TypeOK, PlacedByKind, NEW t \in Threads, NEW obj \in Objects,
         class[SlabOf(obj)] # "none", LocalDealloc(t, obj)
  PROVE  /\ free' \in [Slabs -> SUBSET Objects] /\ \A s \in Slabs : free'[s] \subseteq ObjectsOf(s)
         /\ lists' \in [Threads -> [Classes -> Seq(Slabs)]]
         /\ UNCHANGED <<headquarter, owner, kind, used, class>>
<1> DEFINE slab == SlabOf(obj)
<1>1. slab \in Slabs /\ obj \in ObjectsOf(slab)
  BY ObjectFacts
<1>2. class[slab] \in Classes
  BY <1>1 DEF TypeOK
<1>3. /\ free' = [free EXCEPT ![slab] = @ \cup {obj}]
      /\ lists' = IF free[slab] = {} THEN [lists EXCEPT ![t][class[slab]] = <<slab>> \o @] ELSE lists
      /\ UNCHANGED <<headquarter, owner, kind, used, class>>
  BY DEF LocalDealloc
<1> HIDE DEF slab
<1>4. lists[t][class[slab]] \in Seq(Slabs)
  BY <1>2 DEF TypeOK
<1>5. <<slab>> \o lists[t][class[slab]] \in Seq(Slabs)
  BY <1>1, <1>4, SeqCons
<1>6. lists' \in [Threads -> [Classes -> Seq(Slabs)]]
  BY <1>3, <1>5 DEF TypeOK
<1> QED BY <1>1, <1>3, <1>6 DEF TypeOK

(* when a message is put in the cache,                                     *)
LEMMA TypeEnqueue ==
  ASSUME TypeOK, NEW t \in Threads, NEW msg \in Messages, Enqueue(t, msg)
  PROVE  /\ cache' \in [Threads -> [RemoteSlots -> Seq(Messages)]]
         /\ SlotAt(msg[2], 0) \in RemoteSlots
<1>1. msg[2] \in Nat
  BY ThreadAllocatorConstants DEF Messages
<1>2. SlotAt(msg[2], 0) \in RemoteSlots
  BY <1>1, SlotAtInSlots
<1> DEFINE i == SlotAt(msg[2], 0)
<1>3. cache' = [cache EXCEPT ![t][i] = Append(@, msg)]
  BY DEF Enqueue
<1> HIDE DEF i
<1>4. cache[t][i] \in Seq(Messages)
  BY <1>2 DEF TypeOK, i
<1>5. Append(cache[t][i], msg) \in Seq(Messages)
  BY <1>4
<1> QED BY <1>2, <1>3, <1>5 DEF TypeOK

(* What process does with a message: the callback for one of the thread's   *)
(* own, and for another.                                                   *)
Takes(t, id, msg) ==
  /\ pc[t] = "handle" /\ id = remote_alloc[t] /\ queue[id] # <<>> /\ msg = queue[id][1]
  /\ queue' = [queue EXCEPT ![id] = Tail(@)]
  /\ UNCHANGED <<pc, op, then, shift, remote_alloc, pooled, live, orphaned>>

TakesOwn(t, id, msg) ==
  /\ Takes(t, id, msg) /\ msg[2] = id
  /\ LocalDealloc(t, msg[1])
  /\ UNCHANGED <<cache, cache_size>>

Forwards(t, id, msg) ==
  /\ Takes(t, id, msg) /\ msg[2] # id
  /\ Enqueue(t, msg)
  /\ cache_size' = [cache_size EXCEPT ![t] = @ + 1]
  /\ UNCHANGED slabs

(* when one is taken from the queue,                                       *)
LEMMA TypeTakes ==
  ASSUME TypeOK, PlacedByKind, NEW t \in Threads, NEW id \in Ids, NEW msg \in Messages,
         Takes(t, id, msg)
  PROVE  /\ queue' \in [Ids -> Seq(Messages)]
         /\ msg[1] \in Objects /\ class[SlabOf(msg[1])] # "none"
         /\ 1 \in DOMAIN queue[id]
<1>1. queue[id] \in Seq(Messages) /\ queue[id] # <<>>
  BY DEF Takes, TypeOK
<1>2. 1 \in DOMAIN queue[id] /\ Tail(queue[id]) \in Seq(Messages)
  BY <1>1, SeqTail
<1>3. queue' \in [Ids -> Seq(Messages)]
  BY <1>2 DEF TypeOK, Takes
<1>4. msg[1] \in Objects /\ class[SlabOf(msg[1])] # "none"
  BY <1>2, InQueue DEF Takes
<1> QED BY <1>2, <1>3, <1>4

(* when it is for the thread itself,                                       *)
LEMMA TypeTakesOwn ==
  ASSUME TypeOK, PlacedByKind, NEW t \in Threads, NEW id \in Ids, NEW msg \in Messages,
         TakesOwn(t, id, msg)
  PROVE  TypeOK'
<1>1. Takes(t, id, msg) /\ LocalDealloc(t, msg[1]) /\ UNCHANGED <<cache, cache_size>>
  BY DEF TakesOwn
<1>2. /\ queue' \in [Ids -> Seq(Messages)]
      /\ msg[1] \in Objects /\ class[SlabOf(msg[1])] # "none"
  BY <1>1, TypeTakes
<1>3. /\ free' \in [Slabs -> SUBSET Objects] /\ \A s \in Slabs : free'[s] \subseteq ObjectsOf(s)
      /\ lists' \in [Threads -> [Classes -> Seq(Slabs)]]
      /\ UNCHANGED <<headquarter, owner, kind, used, class>>
  BY <1>1, <1>2, TypeLocalDealloc
<1>4. UNCHANGED <<pc, op, then, shift, remote_alloc, pooled, live, orphaned>>
  BY <1>1 DEF Takes
<1> QED BY <1>1, <1>2, <1>3, <1>4 DEF TypeOK

(* when it is forwarded,                                                   *)
LEMMA TypeForwards ==
  ASSUME TypeOK, PlacedByKind, NEW t \in Threads, NEW id \in Ids, NEW msg \in Messages,
         Forwards(t, id, msg)
  PROVE  TypeOK'
<1>1. queue' \in [Ids -> Seq(Messages)]
  BY TypeTakes DEF Forwards
<1>2. cache' \in [Threads -> [RemoteSlots -> Seq(Messages)]]
  BY TypeEnqueue DEF Forwards
<1>3. cache_size' \in [Threads -> Nat]
  BY DEF Forwards, TypeOK
<1>4. UNCHANGED <<pc, op, then, shift, remote_alloc, pooled, live, orphaned, lists, headquarter,
                  owner, kind, used, class, free>>
  BY DEF Forwards, Takes, slabs
<1> QED BY <1>1, <1>2, <1>3, <1>4 DEF TypeOK

(* What post<true> does to the control. *)
LEMMA TypePostTrue ==
  ASSUME TypeOK, NEW t \in Threads, NEW size \in Nat, NEW next \in {"idle", "body", "release"},
         PostTrue(t, size, next)
  PROVE  /\ pc' \in [Threads -> {"off", "idle", "handle", "post", "body", "release"}]
         /\ then' \in [Threads -> {"idle", "body", "release"}]
         /\ shift' \in [Threads -> Nat] /\ cache_size' \in [Threads -> Nat]
         /\ \A u \in Threads : pc'[u] = "off" <=> u # t /\ pc[u] = "off"
<1>1. CASE Post(t, next)
  BY <1>1 DEF TypeOK, Post
<1>2. CASE /\ cache_size' = [cache_size EXCEPT ![t] = size]
           /\ pc' = [pc EXCEPT ![t] = next]
           /\ UNCHANGED <<then, shift>>
  BY <1>2 DEF TypeOK
<1> QED BY <1>1, <1>2 DEF PostTrue

(* when the queue is empty or a push is under way,                         *)
LEMMA TypeProcessDone ==
  ASSUME TypeOK, NEW t \in Threads, ProcessDone(t)
  PROVE  TypeOK'
<1>1. /\ pc[t] = "handle" /\ PostTrue(t, cache_size[t], "body")
      /\ UNCHANGED <<op, cache, queue, lists, headquarter, owner, kind, used, class, free,
                     remote_alloc, pooled, live, orphaned>>
  BY DEF ProcessDone, slabs
<1>2. cache_size[t] \in Nat
  BY DEF TypeOK
<1> QED BY <1>1, <1>2, TypePostTrue DEF TypeOK

(* What post does, in terms of the slot it pushes or distributes. *)
Pushes(t, i, id) ==
  /\ pc[t] = "post" /\ i # OwnSlot(t) /\ cache[t][i] # <<>>
  /\ Head(cache[t][i])[2] = id
  /\ queue' = [queue EXCEPT ![id] = @ \o cache[t][i]]
  /\ cache' = [cache EXCEPT ![t][i] = <<>>]
  /\ UNCHANGED <<pc, op, then, shift, cache_size, lists, headquarter, owner, kind, used, class,
                 free, remote_alloc, pooled, live, orphaned>>

(* (A post pushes what is in one slot, to one id.)                         *)
LEMMA PushSlot ==
  ASSUME TypeOK, CachedForOthers, NEW t \in Threads, PostPush(t)
  PROVE  \E i \in RemoteSlots : \E id \in Ids : Pushes(t, i, id)
<1> DEFINE i == CHOOSE i \in OtherSlots(t) : \A j \in OtherSlots(t) : i <= j
<1>1. OtherSlots(t) # {} /\ OtherSlots(t) \in SUBSET Nat
  <2>1. RemoteSlots \subseteq Nat
    BY Pow2Nat, ThreadAllocatorConstants DEF RemoteSlots
  <2> QED BY <2>1 DEF PostPush, OtherSlots
<1>2. i \in OtherSlots(t)
  <2>1. \E j \in OtherSlots(t) : \A k \in OtherSlots(t) : j <= k
    BY <1>1, NatLeast
  <2> QED BY <2>1
<1>3. /\ pc[t] = "post"
      /\ queue' = [queue EXCEPT ![owner[Head(cache[t][i])[1][1]]] = @ \o cache[t][i]]
      /\ cache' = [cache EXCEPT ![t][i] = <<>>]
      /\ UNCHANGED <<pc, op, then, shift, cache_size, lists, headquarter, owner, kind, used, class,
                     free, remote_alloc, pooled, live, orphaned>>
  BY DEF PostPush, control, slabs
<1> HIDE DEF i
<1>4. i \in RemoteSlots /\ i # OwnSlot(t) /\ cache[t][i] # <<>>
  BY <1>2 DEF OtherSlots
<1>5. cache[t][i] \in Seq(Messages)
  BY <1>4 DEF TypeOK
<1>6. Head(cache[t][i]) \in Messages /\ Head(cache[t][i]) \in Range(cache[t][i])
  BY <1>4, <1>5, SeqTail
<1>7. Head(cache[t][i])[2] \in Ids /\ owner[Head(cache[t][i])[1][1]] = Head(cache[t][i])[2]
  BY <1>4, <1>6 DEF CachedForOthers, Messages
<1> QED BY <1>3, <1>4, <1>7 DEF Pushes

(* when a list is pushed,                                                  *)
LEMMA TypePostPush ==
  ASSUME TypeOK, NEW t \in Threads, NEW i \in RemoteSlots, NEW id \in Ids, Pushes(t, i, id)
  PROVE  TypeOK'
<1>1. queue[id] \in Seq(Messages) /\ cache[t][i] \in Seq(Messages)
  BY DEF TypeOK
<1>2. queue[id] \o cache[t][i] \in Seq(Messages)
  BY <1>1
<1>3. queue' \in [Ids -> Seq(Messages)]
  BY <1>2 DEF TypeOK, Pushes
<1>4. cache' \in [Threads -> [RemoteSlots -> Seq(Messages)]]
  BY DEF TypeOK, Pushes
<1> QED BY <1>3, <1>4 DEF TypeOK, Pushes

Distributes(t, own) ==
  /\ pc[t] = "post" /\ own = OwnSlot(t) /\ cache[t][own] # <<>>
  /\ \A i \in RemoteSlots \ {own} : cache[t][i] = <<>>
  /\ cache' = [cache EXCEPT ![t] = [i \in RemoteSlots |->
                                      Bucket(cache[t][own], shift[t] + RemoteSlotBits, i)]]
  /\ shift' = [shift EXCEPT ![t] = shift[t] + RemoteSlotBits]
  /\ UNCHANGED <<pc, op, then, cache_size, queue, lists, headquarter, owner, kind, used, class,
                 free, remote_alloc, pooled, live, orphaned>>

(* (A post distributes the slot that the thread itself is in.)             *)
LEMMA RebucketSlot ==
  ASSUME TypeOK, NEW t \in Threads, PostRebucket(t)
  PROVE  \E own \in RemoteSlots : Distributes(t, own)
<1>1. remote_alloc[t] \in Nat /\ shift[t] \in Nat
  BY ThreadAllocatorConstants DEF PostRebucket, TypeOK
<1>2. OwnSlot(t) \in RemoteSlots
  BY <1>1, SlotAtInSlots DEF OwnSlot
<1>3. Distributes(t, OwnSlot(t))
  BY DEF PostRebucket, Distributes, OtherSlots, NextShift, slabs
<1> QED BY <1>2, <1>3

(* when the own slot is distributed,                                       *)
LEMMA TypePostRebucket ==
  ASSUME TypeOK, NEW t \in Threads, NEW own \in RemoteSlots, Distributes(t, own)
  PROVE  TypeOK'
<1>1. cache[t][own] \in Seq(Messages)
  BY DEF TypeOK
<1>2. \A i : Bucket(cache[t][own], shift[t] + RemoteSlotBits, i) \in Seq(Messages)
  BY <1>1, BucketMessages
<1>3. cache' \in [Threads -> [RemoteSlots -> Seq(Messages)]]
  BY <1>2 DEF TypeOK, Distributes
<1>4. shift' \in [Threads -> Nat]
  <2>1. shift[t] + RemoteSlotBits \in Nat
    BY ThreadAllocatorConstants DEF TypeOK
  <2> QED BY <2>1 DEF TypeOK, Distributes
<1> QED BY <1>3, <1>4 DEF TypeOK, Distributes

(* when the post ends,                                                     *)
LEMMA TypePostDone ==
  ASSUME TypeOK, NEW t \in Threads, PostDone(t)
  PROVE  TypeOK'
<1>1. /\ pc[t] = "post" /\ pc' = [pc EXCEPT ![t] = then[t]] /\ then' = [then EXCEPT ![t] = "idle"]
      /\ shift' = [shift EXCEPT ![t] = 0]
      /\ UNCHANGED <<op, cache, cache_size, queue, lists, headquarter, owner, kind, used, class,
                     free, remote_alloc, pooled, live, orphaned>>
  BY DEF PostDone, messages, slabs
<1>2. then[t] \in {"idle", "body", "release"}
  BY DEF TypeOK
<1>3. /\ pc' \in [Threads -> {"off", "idle", "handle", "post", "body", "release"}]
      /\ \A u \in Threads : pc'[u] = "off" <=> pc[u] = "off"
  BY <1>1, <1>2 DEF TypeOK
<1>4. then' \in [Threads -> {"idle", "body", "release"}] /\ shift' \in [Threads -> Nat]
  BY <1>1 DEF TypeOK
<1> QED BY <1>1, <1>3, <1>4 DEF TypeOK

(* The end of a call, for what the allocators' own actions leave alone.    *)
LEMMA TypeReturns ==
  ASSUME TypeOK, NEW t \in Threads, Returns(t)
  PROVE  /\ pc' \in [Threads -> {"off", "idle", "handle", "post", "body", "release"}]
         /\ op' \in [Threads -> Ops]
         /\ \A u \in Threads : pc'[u] = "off" <=> pc[u] = "off"
         /\ UNCHANGED <<then, shift, cache, cache_size, queue, remote_alloc, pooled, orphaned>>
<1>1. <<>> \in Ops
  BY DEF Ops
<1> QED BY <1>1 DEF TypeOK, Returns, messages

(* when an object is taken from a listed slab,                             *)
LEMMA TypeAllocListed ==
  ASSUME TypeOK, NEW t \in Threads, NEW c \in Classes, Returns(t), AllocListed(t, c)
  PROVE  TypeOK'
<1> DEFINE slab == Head(lists[t][c])
<1>1. lists[t][c] \in Seq(Slabs) /\ lists[t][c] # <<>>
  BY DEF TypeOK, AllocListed
<1>2. slab \in Slabs /\ Tail(lists[t][c]) \in Seq(Slabs)
  BY <1>1, SeqTail
<1>3. PICK obj \in free[slab] :
        free' = [free EXCEPT ![slab] = @ \ {obj}] /\ live' = live \cup {obj}
  BY DEF AllocListed
<1>4. /\ lists' = [lists EXCEPT ![t][c] = Tail(@)] \/ lists' = lists
      /\ UNCHANGED <<headquarter, owner, kind, used, class>>
  BY DEF AllocListed
<1> HIDE DEF slab
<1>5. lists' \in [Threads -> [Classes -> Seq(Slabs)]]
  <2>1. lists \in [Threads -> [Classes -> Seq(Slabs)]]
    BY DEF TypeOK
  <2>2. CASE lists' = [lists EXCEPT ![t][c] = Tail(@)]
    BY <1>2, <2>1, <2>2
  <2> QED BY <1>4, <2>1, <2>2
<1>6. free' \in [Slabs -> SUBSET Objects] /\ (\A s \in Slabs : free'[s] \subseteq ObjectsOf(s))
      /\ live' \subseteq Objects
  BY <1>2, <1>3 DEF TypeOK
<1> QED BY <1>4, <1>5, <1>6, TypeReturns DEF TypeOK

(* when a slab is made,                                                    *)
LEMMA TypeNewSlab ==
  ASSUME TypeOK, NEW t \in Threads, NEW c \in Classes, NEW slab \in Slabs, NewSlab(t, slab, c)
  PROVE  /\ class' \in [Slabs -> Classes \cup {"none"}]
         /\ free' \in [Slabs -> SUBSET Objects] /\ \A s \in Slabs : free'[s] \subseteq ObjectsOf(s)
         /\ live' \subseteq Objects
         /\ lists' \in [Threads -> [Classes -> Seq(Slabs)]]
<1>1. PICK obj \in ObjectsOf(slab) :
        live' = live \cup {obj} /\ free' = [free EXCEPT ![slab] = ObjectsOf(slab) \ {obj}]
  BY DEF NewSlab
<1>2. ObjectsOf(slab) \subseteq Objects
  BY SlabFacts
<1>3. lists \in [Threads -> [Classes -> Seq(Slabs)]] /\ lists[t][c] \in Seq(Slabs)
  BY DEF TypeOK
<1>4. <<slab>> \o lists[t][c] \in Seq(Slabs)
  BY <1>3, SeqCons
<1>5. lists' \in [Threads -> [Classes -> Seq(Slabs)]]
  <2>1. lists' = [lists EXCEPT ![t][c] = <<slab>> \o @] \/ lists' = lists
    BY DEF NewSlab
  <2>2. CASE lists' = [lists EXCEPT ![t][c] = <<slab>> \o @]
    BY <1>3, <1>4, <2>2
  <2> QED BY <1>3, <2>1, <2>2
<1>6. class' \in [Slabs -> Classes \cup {"none"}]
  BY DEF TypeOK, NewSlab
<1>7. free' \in [Slabs -> SUBSET Objects] /\ \A s \in Slabs : free'[s] \subseteq ObjectsOf(s)
  BY <1>1, <1>2 DEF TypeOK
<1>8. live' \subseteq Objects
  BY <1>1, <1>2 DEF TypeOK
<1> QED BY <1>5, <1>6, <1>7, <1>8

(* (Every chunk has a first slab.)                                         *)
LEMMA SlabOne ==
  ASSUME NEW k \in Chunks
  PROVE  <<k, 1>> \in Slabs
BY ThreadAllocatorConstants DEF Slabs

(* What a new chunk or meta_slab gives: the slab and the state of its      *)
(* chunk.                                                                  *)
MetaSlab(t, c, hq) ==
  /\ lists[t][c] = <<>> /\ headquarter[t] # <<>> /\ hq = Head(headquarter[t])
  /\ used' = [used EXCEPT ![hq] = @ + 1]
  /\ headquarter' = IF used[hq] + 1 = SlabsPerChunk
                    THEN [headquarter EXCEPT ![t] = Tail(@)] ELSE headquarter
  /\ NewSlab(t, <<hq, used[hq] + 1>>, c)
  /\ UNCHANGED <<owner, kind>>

(* (A headquarters slab with room has a slab that is not in use.)          *)
LEMMA MetaSlabFacts ==
  ASSUME TypeOK, ListedIffAvailable, NEW t \in Threads, NEW c \in Classes, AllocMetaSlab(t, c)
  PROVE  \E hq \in Chunks :
           /\ MetaSlab(t, c, hq) /\ hq \in Range(headquarter[t])
           /\ owner[hq] = remote_alloc[t] /\ used[hq] < SlabsPerChunk
           /\ <<hq, used[hq] + 1>> \in Slabs
<1>1. headquarter[t] \in Seq(Chunks) /\ headquarter[t] # <<>>
  BY DEF TypeOK, AllocMetaSlab
<1>2. Head(headquarter[t]) \in Chunks /\ Head(headquarter[t]) \in Range(headquarter[t])
  BY <1>1, SeqTail
<1> DEFINE hq == Head(headquarter[t])
<1>3. MetaSlab(t, c, hq)
  BY DEF AllocMetaSlab, MetaSlab
<1> HIDE DEF hq
<1>4. owner[hq] = remote_alloc[t] /\ used[hq] < SlabsPerChunk
  BY <1>2 DEF ListedIffAvailable, hq
<1>5. used[hq] \in 0 .. SlabsPerChunk
  BY <1>2 DEF TypeOK, hq
<1>6. used[hq] + 1 \in 1 .. SlabsPerChunk
  BY <1>4, <1>5, ThreadAllocatorConstants
<1>7. <<hq, used[hq] + 1>> \in Slabs
  BY <1>2, <1>6 DEF Slabs, hq
<1> QED BY <1>2, <1>3, <1>4, <1>7 DEF hq

(* when it is made in a chunk of the headquarters,                         *)
LEMMA TypeMetaSlab ==
  ASSUME TypeOK, NEW t \in Threads, NEW c \in Classes, Returns(t), NEW hq \in Chunks,
         MetaSlab(t, c, hq), used[hq] < SlabsPerChunk, <<hq, used[hq] + 1>> \in Slabs
  PROVE  TypeOK'
<1>1. used' \in [Chunks -> 0 .. SlabsPerChunk]
  <2>1. used \in [Chunks -> 0 .. SlabsPerChunk] /\ SlabsPerChunk \in Nat
    BY ThreadAllocatorConstants DEF TypeOK
  <2>2. used[hq] + 1 \in 0 .. SlabsPerChunk
    BY <2>1
  <2> QED BY <2>1, <2>2 DEF MetaSlab
<1>2. headquarter' \in [Threads -> Seq(Chunks)]
  <2>1. headquarter \in [Threads -> Seq(Chunks)]
    BY DEF TypeOK
  <2>2. Tail(headquarter[t]) \in Seq(Chunks)
    BY <2>1, SeqTail DEF MetaSlab
  <2>3. headquarter' = [headquarter EXCEPT ![t] = Tail(@)] \/ headquarter' = headquarter
    BY DEF MetaSlab
  <2> QED BY <2>1, <2>2, <2>3
<1>3. /\ class' \in [Slabs -> Classes \cup {"none"}]
      /\ free' \in [Slabs -> SUBSET Objects] /\ \A s \in Slabs : free'[s] \subseteq ObjectsOf(s)
      /\ live' \subseteq Objects
      /\ lists' \in [Threads -> [Classes -> Seq(Slabs)]]
  BY TypeNewSlab DEF MetaSlab
<1>4. UNCHANGED <<owner, kind>>
  BY DEF MetaSlab
<1> QED BY <1>1, <1>2, <1>3, <1>4, TypeReturns, ZenonT(40) DEF TypeOK

NewSmallSlab(t, c, hq) ==
  /\ lists[t][c] = <<>> /\ headquarter[t] = <<>>
  /\ owner[hq] = NoId
  /\ NewChunk(t, hq, "Small")
  /\ used' = [used EXCEPT ![hq] = 1]
  /\ headquarter' = [headquarter EXCEPT ![t] = IF SlabsPerChunk > 1 THEN <<hq>> ELSE <<>>]
  /\ NewSlab(t, <<hq, 1>>, c)

(* in a new chunk of small slabs,                                          *)
LEMMA TypeSmallSlab ==
  ASSUME TypeOK, NEW t \in Threads, NEW c \in Classes, Returns(t), NEW hq \in Chunks,
         NewSmallSlab(t, c, hq)
  PROVE  TypeOK'
<1>1. used' \in [Chunks -> 0 .. SlabsPerChunk]
  <2>1. used \in [Chunks -> 0 .. SlabsPerChunk] /\ 1 \in 0 .. SlabsPerChunk
    BY ThreadAllocatorConstants DEF TypeOK
  <2> QED BY <2>1 DEF NewSmallSlab
<1>2. headquarter' \in [Threads -> Seq(Chunks)]
  <2>1. headquarter \in [Threads -> Seq(Chunks)] /\ <<hq>> \in Seq(Chunks) /\ <<>> \in Seq(Chunks)
    BY DEF TypeOK
  <2> QED BY <2>1 DEF NewSmallSlab
<1>3. /\ class' \in [Slabs -> Classes \cup {"none"}]
      /\ free' \in [Slabs -> SUBSET Objects] /\ \A s \in Slabs : free'[s] \subseteq ObjectsOf(s)
      /\ live' \subseteq Objects
      /\ lists' \in [Threads -> [Classes -> Seq(Slabs)]]
  BY TypeNewSlab, SlabOne DEF NewSmallSlab
<1>4. owner' \in [Chunks -> Ids \cup {NoId}] /\ kind' \in [Chunks -> {"Wild", "Small", "Medium"}]
  BY DEF NewSmallSlab, NewChunk, TypeOK
<1> QED BY <1>1, <1>2, <1>3, <1>4, TypeReturns, ZenonT(40) DEF TypeOK

NewMediumSlab(t, c, k) ==
  /\ lists[t][c] = <<>>
  /\ owner[k] = NoId
  /\ NewChunk(t, k, "Medium")
  /\ NewSlab(t, <<k, 1>>, c)
  /\ UNCHANGED <<headquarter, used>>

(* in a new chunk for one medium slab,                                     *)
LEMMA TypeMediumSlab ==
  ASSUME TypeOK, NEW t \in Threads, NEW c \in Classes, Returns(t), NEW k \in Chunks,
         NewMediumSlab(t, c, k)
  PROVE  TypeOK'
<1>1. /\ class' \in [Slabs -> Classes \cup {"none"}]
      /\ free' \in [Slabs -> SUBSET Objects] /\ \A s \in Slabs : free'[s] \subseteq ObjectsOf(s)
      /\ live' \subseteq Objects
      /\ lists' \in [Threads -> [Classes -> Seq(Slabs)]]
  BY TypeNewSlab, SlabOne DEF NewMediumSlab
<1>2. owner' \in [Chunks -> Ids \cup {NoId}] /\ kind' \in [Chunks -> {"Wild", "Small", "Medium"}]
  BY DEF NewMediumSlab, NewChunk, TypeOK
<1>3. used' \in [Chunks -> 0 .. SlabsPerChunk] /\ headquarter' \in [Threads -> Seq(Chunks)]
  BY DEF NewMediumSlab, TypeOK
<1> QED BY <1>1, <1>2, <1>3, TypeReturns, ZenonT(40) DEF TypeOK

(* deallocate: what the object gives, and whose it is. *)
FreesOwn(t, obj) ==
  /\ Frees(t, obj) /\ owner[obj[1]] = remote_alloc[t]
  /\ LocalDealloc(t, obj) /\ Returns(t) /\ UNCHANGED live

FreesRemote(t, obj) ==
  /\ pc[t] = "body" /\ Frees(t, obj) /\ owner[obj[1]] # remote_alloc[t]
  /\ Enqueue(t, <<obj, owner[obj[1]]>>)
  /\ PostTrue(t, cache_size[t] + 1, "idle")
  /\ op' = [op EXCEPT ![t] = <<>>]
  /\ UNCHANGED <<queue, slabs, remote_alloc, pooled, live, orphaned>>

(* when an object is freed in the thread's own slab,                       *)
LEMMA TypeFreesOwn ==
  ASSUME TypeOK, PlacedByKind, NEW t \in Threads, NEW obj \in Objects, FreesOwn(t, obj)
  PROVE  TypeOK'
<1>1. class[SlabOf(obj)] # "none"
  BY InCall DEF FreesOwn, Frees
<1>2. /\ free' \in [Slabs -> SUBSET Objects] /\ \A s \in Slabs : free'[s] \subseteq ObjectsOf(s)
      /\ lists' \in [Threads -> [Classes -> Seq(Slabs)]]
      /\ UNCHANGED <<headquarter, owner, kind, used, class>>
  BY <1>1, TypeLocalDealloc DEF FreesOwn
<1>3. UNCHANGED live
  BY DEF FreesOwn
<1> QED BY <1>2, <1>3, TypeReturns DEF TypeOK, FreesOwn

(* The message for a remote object carries the id of a remote_allocator.   *)
LEMMA RemoteMessage ==
  ASSUME TypeOK, SlabsOwned, PlacedByKind, NEW t \in Threads, NEW obj \in Objects,
         FreesRemote(t, obj)
  PROVE  <<obj, owner[obj[1]]>> \in Messages /\ class[SlabOf(obj)] # "none"
<1>1. class[SlabOf(obj)] # "none" /\ SlabOf(obj) \in Slabs /\ SlabOf(obj)[1] = obj[1]
  BY InCall, ObjectFacts DEF FreesRemote, Frees
<1>2. owner[obj[1]] # NoId
  BY <1>1 DEF SlabsOwned
<1>3. owner[obj[1]] \in Ids
  BY <1>2, ObjectFacts DEF TypeOK
<1> QED BY <1>1, <1>3 DEF Messages

(* when it is another thread's,                                            *)
LEMMA TypeFreesRemote ==
  ASSUME TypeOK, SlabsOwned, PlacedByKind, NEW t \in Threads, NEW obj \in Objects,
         FreesRemote(t, obj)
  PROVE  TypeOK'
<1>1. cache' \in [Threads -> [RemoteSlots -> Seq(Messages)]]
  BY RemoteMessage, TypeEnqueue DEF FreesRemote
<1>2. cache_size[t] + 1 \in Nat
  BY DEF TypeOK
<1>3. /\ pc' \in [Threads -> {"off", "idle", "handle", "post", "body", "release"}]
      /\ then' \in [Threads -> {"idle", "body", "release"}]
      /\ shift' \in [Threads -> Nat] /\ cache_size' \in [Threads -> Nat]
      /\ \A u \in Threads : pc'[u] = "off" <=> u # t /\ pc[u] = "off"
  BY <1>2, TypePostTrue DEF FreesRemote
<1>4. op' \in [Threads -> Ops]
  BY DEF TypeOK, FreesRemote, Ops
<1>5. pc[t] # "off"
  BY DEF FreesRemote
<1>6. UNCHANGED <<queue, lists, headquarter, owner, kind, used, class, free, remote_alloc, pooled,
                  live, orphaned>>
  BY DEF FreesRemote, slabs
<1> QED BY <1>1, <1>3, <1>4, <1>5, <1>6 DEF TypeOK

(* when the call is for a large block,                                     *)
LEMMA TypeUseLarge ==
  ASSUME TypeOK, NEW t \in Threads, UseLarge(t)
  PROVE  TypeOK'
<1>1. UNCHANGED <<lists, headquarter, owner, kind, used, class, free, live>> /\ Returns(t)
  BY DEF UseLarge, slabs
<1> QED BY <1>1, TypeReturns DEF TypeOK

(* when a thread exits,                                                    *)
LEMMA TypeExit ==
  ASSUME TypeOK, NEW t \in Threads, Exit(t)
  PROVE  TypeOK'
<1>1. /\ pc[t] = "idle" /\ Post(t, "release")
      /\ UNCHANGED <<op, cache, queue, lists, headquarter, owner, kind, used, class, free,
                     remote_alloc, pooled, live, orphaned>>
  BY DEF Exit, slabs
<1>2. /\ pc' \in [Threads -> {"off", "idle", "handle", "post", "body", "release"}]
      /\ then' \in [Threads -> {"idle", "body", "release"}]
      /\ shift' \in [Threads -> Nat] /\ cache_size' \in [Threads -> Nat]
      /\ \A u \in Threads : pc'[u] = "off" <=> u # t /\ pc[u] = "off"
  BY <1>1 DEF Post, TypeOK
<1> QED BY <1>1, <1>2 DEF TypeOK

(* and when it gives back its remote_allocator.                            *)
LEMMA TypeRelease ==
  ASSUME TypeOK, NEW t \in Threads, Release(t)
  PROVE  TypeOK'
<1>1. remote_alloc[t] \in Ids
  BY DEF TypeOK, Release
<1>2. pooled' \in Seq(Ids)
  <2>1. pooled \in Seq(Ids) /\ pooled' = <<remote_alloc[t]>> \o pooled
    BY DEF TypeOK, Release
  <2> QED BY <1>1, <2>1, SeqCons
<1>3. /\ remote_alloc' \in [Threads -> Ids \cup {NoId}]
      /\ pc' \in [Threads -> {"off", "idle", "handle", "post", "body", "release"}]
      /\ \A u \in Threads : remote_alloc'[u] = NoId <=> pc'[u] = "off"
  BY DEF TypeOK, Release
<1>4. lists' \in [Threads -> [Classes -> Seq(Slabs)]] /\ headquarter' \in [Threads -> Seq(Chunks)]
  BY DEF TypeOK, Release
<1>5. orphaned' \subseteq Slabs
  <2>1. \A c \in Classes : Range(lists[t][c]) \subseteq Slabs
    <3> TAKE c \in Classes
    <3>1. lists[t][c] \in Seq(Slabs)
      BY DEF TypeOK
    <3> QED BY <3>1 DEF Range
  <2> QED BY <2>1 DEF TypeOK, Release, Listed
<1>6. UNCHANGED <<op, then, shift, cache, cache_size, queue, owner, kind, used, class, free, live>>
  BY DEF Release, messages
<1> QED BY <1>2, <1>3, <1>4, <1>5, <1>6 DEF TypeOK

-----------------------------------------------------------------------------
(* A step of the system, unpacked. *)
Move(t) ==
  \/ Start(t)
  \/ \E o \in Ops : Begins(t, o)
  \/ \E id \in Ids, msg \in Messages : TakesOwn(t, id, msg)
  \/ \E id \in Ids, msg \in Messages : Forwards(t, id, msg)
  \/ ProcessDone(t)
  \/ \E i \in RemoteSlots, id \in Ids : Pushes(t, i, id)
  \/ \E own \in RemoteSlots : Distributes(t, own)
  \/ PostDone(t)
  \/ \E c \in Classes : Allocates(t, c) /\ AllocListed(t, c)
  \/ \E c \in Classes, hq \in Chunks :
       /\ Allocates(t, c) /\ MetaSlab(t, c, hq) /\ hq \in Range(headquarter[t])
       /\ owner[hq] = remote_alloc[t] /\ used[hq] < SlabsPerChunk
       /\ <<hq, used[hq] + 1>> \in Slabs
  \/ \E c \in Classes, hq \in Chunks : Allocates(t, c) /\ NewSmallSlab(t, c, hq)
  \/ \E c \in Classes, k \in Chunks : Allocates(t, c) /\ NewMediumSlab(t, c, k)
  \/ \E obj \in Objects : FreesOwn(t, obj)
  \/ \E obj \in Objects : FreesRemote(t, obj)
  \/ UseLarge(t)
  \/ Exit(t)
  \/ Release(t)

(* A step of the program is a move of one thread.                          *)
LEMMA Moves ==
  ASSUME TypeOK, CachedForOthers, ListedIffAvailable, Next
  PROVE  \E t \in Threads : Move(t)
<1>1. PICK t \in Threads :
           \/ Start(t)
           \/ \E o \in Ops : Begins(t, o)
           \/ Process(t) \/ ProcessDone(t)
           \/ PostPush(t) \/ PostRebucket(t) \/ PostDone(t)
           \/ \E c \in Classes : Allocates(t, c) /\ AllocListed(t, c)
           \/ \E c \in Classes : Allocates(t, c) /\ AllocMetaSlab(t, c)
           \/ \E c \in Classes : Allocates(t, c) /\ AllocSmallSlab(t, c)
           \/ \E c \in Classes : Allocates(t, c) /\ AllocMediumSlab(t, c)
           \/ DeallocateOwn(t) \/ DeallocateRemote(t) \/ UseLarge(t)
           \/ Exit(t) \/ Release(t)
  BY Steps
<1>2. ASSUME Process(t)
      PROVE  \E id \in Ids, msg \in Messages : TakesOwn(t, id, msg) \/ Forwards(t, id, msg)
  <2> DEFINE id == remote_alloc[t]
             msg == Head(queue[id])
  <2>1. id \in Ids
    BY <1>2 DEF Process, TypeOK
  <2>2. queue[id] \in Seq(Messages) /\ queue[id] # <<>>
    BY <1>2, <2>1 DEF Process, TypeOK
  <2>3. msg \in Messages /\ msg = queue[id][1]
    BY <2>2, SeqTail
  <2>4. Takes(t, id, msg)
    BY <1>2, <2>3 DEF Process, Takes, control
  <2>5. CASE msg[2] = id
    <3>1. TakesOwn(t, id, msg)
      BY <1>2, <2>4, <2>5 DEF Process, TakesOwn
    <3> QED BY <2>1, <2>3, <3>1
  <2>6. CASE msg[2] # id
    <3>1. Forwards(t, id, msg)
      BY <1>2, <2>4, <2>6 DEF Process, Forwards
    <3> QED BY <2>1, <2>3, <3>1
  <2> QED BY <2>5, <2>6
<1>3. ASSUME NEW c \in Classes, AllocSmallSlab(t, c)
      PROVE  \E hq \in Chunks : NewSmallSlab(t, c, hq)
  BY <1>3 DEF AllocSmallSlab, NewSmallSlab, Unreserved
<1>4. ASSUME NEW c \in Classes, AllocMediumSlab(t, c)
      PROVE  \E k \in Chunks : NewMediumSlab(t, c, k)
  BY <1>4 DEF AllocMediumSlab, NewMediumSlab, Unreserved
<1>5. ASSUME DeallocateOwn(t)
      PROVE  \E obj \in Objects : FreesOwn(t, obj)
  BY <1>5 DEF DeallocateOwn, FreesOwn
<1>6. ASSUME DeallocateRemote(t)
      PROVE  \E obj \in Objects : FreesRemote(t, obj)
  BY <1>6 DEF DeallocateRemote, FreesRemote
<1>7. ASSUME PostPush(t)
      PROVE  \E i \in RemoteSlots, id \in Ids : Pushes(t, i, id)
  BY <1>7, PushSlot
<1>8. ASSUME PostRebucket(t)
      PROVE  \E own \in RemoteSlots : Distributes(t, own)
  BY <1>8, RebucketSlot
<1>9. ASSUME NEW c \in Classes, AllocMetaSlab(t, c)
      PROVE  \E hq \in Chunks :
               /\ MetaSlab(t, c, hq) /\ hq \in Range(headquarter[t])
               /\ owner[hq] = remote_alloc[t] /\ used[hq] < SlabsPerChunk
               /\ <<hq, used[hq] + 1>> \in Slabs
  BY <1>9, MetaSlabFacts
<1> QED BY <1>1, <1>2, <1>3, <1>4, <1>5, <1>6, <1>7, <1>8, <1>9 DEF Move

(* So every move keeps the types.                                          *)
LEMMA TypeMove ==
  ASSUME TypeOK, SlabsOwned, PlacedByKind, NEW t \in Threads, Move(t)
  PROVE  TypeOK'
<1>1. ASSUME NEW c \in Classes, Allocates(t, c), AllocListed(t, c) PROVE TypeOK'
  BY <1>1, TypeAllocListed DEF Allocates
<1>2. ASSUME NEW c \in Classes, NEW hq \in Chunks, Allocates(t, c), MetaSlab(t, c, hq),
             used[hq] < SlabsPerChunk, <<hq, used[hq] + 1>> \in Slabs
      PROVE TypeOK'
  BY <1>2, TypeMetaSlab DEF Allocates
<1>3. ASSUME NEW c \in Classes, NEW hq \in Chunks, Allocates(t, c), NewSmallSlab(t, c, hq)
      PROVE TypeOK'
  BY <1>3, TypeSmallSlab DEF Allocates
<1>4. ASSUME NEW c \in Classes, NEW k \in Chunks, Allocates(t, c), NewMediumSlab(t, c, k)
      PROVE TypeOK'
  BY <1>4, TypeMediumSlab DEF Allocates
<1> QED BY <1>1, <1>2, <1>3, <1>4, TypeStart, TypeCall, TypeTakesOwn, TypeForwards, TypeProcessDone,
           TypePostPush, TypePostRebucket, TypePostDone, TypeFreesOwn, TypeFreesRemote,
           TypeUseLarge, TypeExit, TypeRelease DEF Move

-----------------------------------------------------------------------------
(* What a step leaves alone: the ids, except at the start and the end of a *)
(* thread; the chunks and the classes, except when a slab is made.         *)
Makes(t) ==
  \/ \E c \in Classes, hq \in Chunks :
       /\ Allocates(t, c) /\ MetaSlab(t, c, hq) /\ hq \in Range(headquarter[t])
       /\ owner[hq] = remote_alloc[t] /\ used[hq] < SlabsPerChunk
       /\ <<hq, used[hq] + 1>> \in Slabs
  \/ \E c \in Classes, hq \in Chunks : Allocates(t, c) /\ NewSmallSlab(t, c, hq)
  \/ \E c \in Classes, k \in Chunks : Allocates(t, c) /\ NewMediumSlab(t, c, k)

(* Ids change hands only when a thread starts or exits.                    *)
LEMMA IdsFrame ==
  ASSUME NEW t \in Threads, Move(t)
  PROVE  Start(t) \/ Release(t) \/ UNCHANGED <<remote_alloc, pooled, orphaned>>
BY DEF Move, Begins, Call, TakesOwn, Forwards, Takes, ProcessDone, Pushes, Distributes, PostDone,
       Allocates, Returns, FreesOwn, FreesRemote, UseLarge, Exit

(* Slabs and chunks change only when a slab is made.                       *)
LEMMA SlabsFrame ==
  ASSUME NEW t \in Threads, Move(t)
  PROVE  Makes(t) \/ UNCHANGED <<owner, kind, used, class>>
BY DEF Move, Makes, Start, Begins, Call, TakesOwn, Forwards, Takes, ProcessDone, Pushes, Distributes,
       PostDone, AllocListed, FreesOwn, FreesRemote, UseLarge, Exit, Release, LocalDealloc, slabs

(* Every move keeps Control.                                               *)
LEMMA ControlStep ==
  ASSUME TypeOK, Control, NEW t \in Threads, Move(t)
  PROVE  Control'
<1> USE DEF Control, TypeOK
<1>1. CASE Start(t)
  BY <1>1 DEF Start
<1>2. ASSUME NEW o \in Ops, Begins(t, o) PROVE Control'
  <2>1. o # <<>>
    <3>1. (\A c : <<"alloc", c>> # <<>>) /\ <<"large">> # <<>>
      OBVIOUS
    <3>2. \A obj : <<"dealloc", obj>> # <<>>
      OBVIOUS
    <3> QED BY <1>2, <3>1, <3>2 DEF Begins
  <2> QED BY <1>2, <2>1 DEF Begins, Call
<1>3. ASSUME UNCHANGED <<pc, op, then, shift>> PROVE Control'
  BY <1>3
<1>4. ASSUME NEW size, NEW next, PostTrue(t, size, next),
             \/ next = "body" /\ pc[t] = "handle" /\ op' = op
             \/ next = "idle" /\ pc[t] = "body" /\ op' = [op EXCEPT ![t] = <<>>]
      PROVE Control'
  <2>1. CASE Post(t, next)
    BY <1>4, <2>1 DEF Post
  <2>2. CASE pc' = [pc EXCEPT ![t] = next] /\ UNCHANGED <<then, shift>>
    BY <1>4, <2>2
  <2> QED BY <1>4, <2>1, <2>2 DEF PostTrue
<1>5. CASE ProcessDone(t)
  BY <1>4, <1>5 DEF ProcessDone
<1>6. ASSUME NEW obj \in Objects, FreesRemote(t, obj) PROVE Control'
  BY <1>4, <1>6 DEF FreesRemote
<1>7. ASSUME NEW own \in RemoteSlots, Distributes(t, own) PROVE Control'
  BY <1>7 DEF Distributes
<1>8. CASE PostDone(t)
  BY <1>8 DEF PostDone
<1>9. ASSUME Returns(t) PROVE Control'
  BY <1>9 DEF Returns
<1>10. CASE Exit(t)
  BY <1>10 DEF Exit, Post
<1>11. CASE Release(t)
  BY <1>11 DEF Release
<1> QED BY <1>1, <1>2, <1>3, <1>5, <1>6, <1>7, <1>8, <1>9, <1>10, <1>11
        DEF Move, TakesOwn, Forwards, Takes, Pushes, Allocates, FreesOwn, UseLarge

(* No move gives an id to two threads.                                     *)
LEMMA IdsApartStep ==
  ASSUME TypeOK, IdsApart, NEW t \in Threads, Move(t)
  PROVE  IdsApart'
<1>1. CASE UNCHANGED <<remote_alloc, pooled>>
  BY <1>1 DEF IdsApart
<1>2. CASE Start(t)
  <2>1. pooled \in Seq(Ids) /\ remote_alloc \in [Threads -> Ids \cup {NoId}]
    BY DEF TypeOK
  <2>2. CASE pooled # <<>>
    <3>1. IsInjective(pooled') /\ Range(pooled') = Range(pooled) \ {Head(pooled)}
      BY <1>2, <2>1, <2>2, InjectiveTail DEF Start, IdsApart
    <3>2. Head(pooled) \in Range(pooled)
      BY <2>1, <2>2, SeqTail
    <3>3. remote_alloc' = [remote_alloc EXCEPT ![t] = Head(pooled)]
      BY <1>2, <2>2 DEF Start
    <3> QED BY <2>1, <3>1, <3>2, <3>3 DEF IdsApart
  <2>3. CASE pooled = <<>>
    <3>1. PICK id \in NeverUsed : remote_alloc' = [remote_alloc EXCEPT ![t] = id] /\ pooled' = pooled
      BY <1>2, <2>3 DEF Start
    <3>2. id \notin Range(pooled) /\ \A u \in Threads : remote_alloc[u] # id
      BY <3>1 DEF NeverUsed, Range
    <3> QED BY <2>1, <3>1, <3>2 DEF IdsApart
  <2> QED BY <2>2, <2>3
<1>3. CASE Release(t)
  <2>1. /\ pooled \in Seq(Ids) /\ remote_alloc[t] \in Ids
        /\ remote_alloc \in [Threads -> Ids \cup {NoId}]
    BY <1>3 DEF TypeOK, Release
  <2>2. /\ pooled' = <<remote_alloc[t]>> \o pooled
        /\ remote_alloc' = [remote_alloc EXCEPT ![t] = NoId]
    BY <1>3 DEF Release
  <2>3. IsInjective(pooled') /\ Range(pooled') = {remote_alloc[t]} \cup Range(pooled)
    BY <2>1, <2>2, InjectiveCons, SeqCons DEF IdsApart
  <2>4. NoId \notin Range(pooled')
    <3>1. NoId \notin Range(pooled)
      BY <2>1, NoIdApart DEF Range
    <3> QED BY <2>1, <2>3, <3>1, NoIdApart
  <2> QED BY <2>1, <2>2, <2>3, <2>4, NoIdApart DEF IdsApart
<1> QED BY <1>1, <1>2, <1>3, IdsFrame

-----------------------------------------------------------------------------
(* A new slab, whichever way it is made.                                   *)
Made(t, c, slab) ==
  /\ Allocates(t, c) /\ NewSlab(t, slab, c)
  /\ class[slab] = "none" /\ lists[t][c] = <<>>
  /\ owner[slab[1]] \in {NoId, remote_alloc[t]}
  /\ owner' = [owner EXCEPT ![slab[1]] = remote_alloc[t]]

(* However a slab is made, it is one that was not in use, of a chunk the   *)
(* thread has then.                                                        *)
LEMMA MakesSlab ==
  ASSUME TypeOK, SlabsOwned, NEW t \in Threads, Makes(t)
  PROVE  \E c \in Classes, slab \in Slabs : Made(t, c, slab)
<1>1. ASSUME NEW c \in Classes, NEW hq \in Chunks,
             Allocates(t, c), MetaSlab(t, c, hq), hq \in Range(headquarter[t]),
             owner[hq] = remote_alloc[t], used[hq] < SlabsPerChunk, <<hq, used[hq] + 1>> \in Slabs
      PROVE  Made(t, c, <<hq, used[hq] + 1>>)
  <2>1. kind[hq] = "Small"
    BY <1>1 DEF SlabsOwned
  <2>2. used[hq] \in Nat
    BY ThreadAllocatorConstants DEF TypeOK
  <2>3. class[<<hq, used[hq] + 1>>] = "none"
    BY <1>1, <2>1, <2>2 DEF SlabsOwned
  <2>4. owner' = [owner EXCEPT ![hq] = remote_alloc[t]]
    BY <1>1 DEF MetaSlab, TypeOK
  <2> QED BY <1>1, <2>3, <2>4 DEF Made, MetaSlab
<1>2. ASSUME NEW c \in Classes, NEW hq \in Chunks, Allocates(t, c),
             NewSmallSlab(t, c, hq) \/ NewMediumSlab(t, c, hq)
      PROVE  Made(t, c, <<hq, 1>>)
  <2>1. class[<<hq, 1>>] = "none"
    BY <1>2, SlabOne DEF SlabsOwned, NewSmallSlab, NewMediumSlab
  <2> QED BY <1>2, <2>1 DEF Made, NewSmallSlab, NewMediumSlab, NewChunk
<1>3. CASE \E c \in Classes, hq \in Chunks :
             /\ Allocates(t, c) /\ MetaSlab(t, c, hq) /\ hq \in Range(headquarter[t])
             /\ owner[hq] = remote_alloc[t] /\ used[hq] < SlabsPerChunk
             /\ <<hq, used[hq] + 1>> \in Slabs
  BY <1>1, <1>3
<1>4. CASE \E c \in Classes, hq \in Chunks :
             Allocates(t, c) /\ (NewSmallSlab(t, c, hq) \/ NewMediumSlab(t, c, hq))
  BY <1>2, <1>4, SlabOne
<1> QED BY <1>3, <1>4 DEF Makes

(* Its chunk: the counts of used meta_slabs and the headquarters.          *)
LEMMA MakesChunk ==
  ASSUME TypeOK, TypeOK', SlabsOwned, IdsApart, ListedIffAvailable, NEW t \in Threads, Makes(t)
  PROVE  /\ \A k \in Chunks : owner'[k] = NoId <=> kind'[k] = "Wild"
         /\ \A s \in Slabs : class'[s] # "none" /\ kind'[s[1]] = "Small" => s[2] <= used'[s[1]]
         /\ \A u \in Threads :
              /\ IsInjective(headquarter'[u])
              /\ \A k \in Range(headquarter'[u]) :
                   kind'[k] = "Small" /\ owner'[k] = remote_alloc[u] /\ used'[k] < SlabsPerChunk
<1>0. /\ remote_alloc[t] \in Ids /\ \A u \in Threads : headquarter[u] \in Seq(Chunks)
      /\ \A k \in Chunks : owner[k] = NoId <=> kind[k] = "Wild"
      /\ \A s \in Slabs : s[1] \in Chunks /\ s[2] \in Nat
      /\ \A k \in Chunks : used[k] \in Nat
  <2>1. remote_alloc[t] \in Ids
    <3>1. pc[t] = "body"
      BY DEF Makes, Allocates, Returns
    <3> QED BY <3>1 DEF TypeOK
  <2>2. \A s \in Slabs : s[1] \in Chunks /\ s[2] \in Nat
    BY ThreadAllocatorConstants DEF Slabs
  <2>3. \A k \in Chunks : used[k] \in Nat
    BY ThreadAllocatorConstants DEF TypeOK
  <2> QED BY <2>1, <2>2, <2>3 DEF TypeOK, SlabsOwned
<1>9. /\ owner \in [Chunks -> Ids \cup {NoId}] /\ kind \in [Chunks -> {"Wild", "Small", "Medium"}]
      /\ used \in [Chunks -> 0 .. SlabsPerChunk] /\ class \in [Slabs -> Classes \cup {"none"}]
      /\ headquarter \in [Threads -> Seq(Chunks)]
  BY DEF TypeOK
<1>1. \A u \in Threads : Range(headquarter[u]) \subseteq Chunks
  BY <1>0 DEF Range
<1>2. \A u \in Threads : \A k \in Range(headquarter[u]) :
        /\ kind[k] = "Small" /\ owner[k] = remote_alloc[u] /\ owner[k] # NoId
        /\ used[k] < SlabsPerChunk
  BY <1>0, <1>1 DEF SlabsOwned, ListedIffAvailable
<1>3. ASSUME NEW c \in Classes, NEW hq \in Chunks, MetaSlab(t, c, hq),
             hq \in Range(headquarter[t]), <<hq, used[hq] + 1>> \in Slabs
      PROVE  /\ \A k \in Chunks : owner'[k] = NoId <=> kind'[k] = "Wild"
             /\ \A s \in Slabs : class'[s] # "none" /\ kind'[s[1]] = "Small" => s[2] <= used'[s[1]]
             /\ \A u \in Threads :
                  /\ IsInjective(headquarter'[u])
                  /\ \A k \in Range(headquarter'[u]) :
                       kind'[k] = "Small" /\ owner'[k] = remote_alloc[u] /\ used'[k] < SlabsPerChunk
  <2>1. /\ owner' = owner /\ kind' = kind /\ used' = [used EXCEPT ![hq] = @ + 1]
        /\ class' = [class EXCEPT ![<<hq, used[hq] + 1>>] = c]
        /\ hq = Head(headquarter[t]) /\ headquarter[t] # <<>>
        /\ headquarter' = IF used[hq] + 1 = SlabsPerChunk
                          THEN [headquarter EXCEPT ![t] = Tail(@)] ELSE headquarter
    BY <1>3 DEF MetaSlab, NewSlab
  <2>2. \A s \in Slabs : class'[s] # "none" /\ kind'[s[1]] = "Small" => s[2] <= used'[s[1]]
    <3> TAKE s \in Slabs
    <3> HAVE class'[s] # "none" /\ kind'[s[1]] = "Small"
    <3>1. CASE s = <<hq, used[hq] + 1>>
      BY <1>0, <1>9, <2>1, <3>1
    <3>2. CASE s # <<hq, used[hq] + 1>>
      <4>1. class[s] # "none"
        BY <1>9, <2>1, <3>2
      <4>2. s[2] <= used[s[1]]
        BY <2>1, <4>1 DEF SlabsOwned
      <4> QED BY <1>0, <1>9, <2>1, <4>2
    <3> QED BY <3>1, <3>2
  <2>3. ASSUME NEW u \in Threads, u # t
        PROVE  /\ IsInjective(headquarter'[u])
               /\ \A k \in Range(headquarter'[u]) :
                    kind'[k] = "Small" /\ owner'[k] = remote_alloc[u] /\ used'[k] < SlabsPerChunk
    <3>1. headquarter'[u] = headquarter[u]
      BY <1>9, <2>1, <2>3
    <3>2. \A k \in Range(headquarter[u]) : k # hq
      BY <1>2, <1>3, <2>3 DEF IdsApart
    <3> QED BY <1>1, <1>2, <2>1, <1>9, <3>1, <3>2 DEF SlabsOwned
  <2>4. /\ IsInjective(headquarter'[t])
        /\ \A k \in Range(headquarter'[t]) :
             kind'[k] = "Small" /\ owner'[k] = remote_alloc[t] /\ used'[k] < SlabsPerChunk
    <3>1. CASE used[hq] + 1 = SlabsPerChunk
      <4>1. headquarter'[t] = Tail(headquarter[t])
        BY <1>9, <2>1, <3>1
      <4>2. IsInjective(headquarter'[t]) /\ Range(headquarter'[t]) = Range(headquarter[t]) \ {hq}
        BY <1>0, <2>1, <4>1, InjectiveTail DEF SlabsOwned
      <4> QED BY <1>1, <1>2, <1>9, <2>1, <4>2
    <3>2. CASE used[hq] + 1 # SlabsPerChunk
      <4>1. headquarter'[t] = headquarter[t]
        BY <2>1, <3>2
      <4>2. used[hq] < SlabsPerChunk /\ SlabsPerChunk \in Nat /\ used[hq] \in Nat
        BY <1>0, <1>2, <1>3, ThreadAllocatorConstants
      <4>3. used'[hq] < SlabsPerChunk
        BY <1>9, <2>1, <3>2, <4>2
      <4> QED BY <1>1, <1>2, <2>1, <1>9, <4>1, <4>3 DEF SlabsOwned
    <3> QED BY <3>1, <3>2
  <2> QED BY <1>0, <2>1, <2>2, <2>3, <2>4
<1>4. ASSUME NEW c \in Classes, NEW hq \in Chunks, NewSmallSlab(t, c, hq)
      PROVE  /\ \A k \in Chunks : owner'[k] = NoId <=> kind'[k] = "Wild"
             /\ \A s \in Slabs : class'[s] # "none" /\ kind'[s[1]] = "Small" => s[2] <= used'[s[1]]
             /\ \A u \in Threads :
                  /\ IsInjective(headquarter'[u])
                  /\ \A k \in Range(headquarter'[u]) :
                       kind'[k] = "Small" /\ owner'[k] = remote_alloc[u] /\ used'[k] < SlabsPerChunk
  <2>1. /\ owner[hq] = NoId /\ headquarter[t] = <<>>
        /\ owner' = [owner EXCEPT ![hq] = remote_alloc[t]] /\ kind' = [kind EXCEPT ![hq] = "Small"]
        /\ used' = [used EXCEPT ![hq] = 1]
        /\ class' = [class EXCEPT ![<<hq, 1>>] = c]
        /\ headquarter' = [headquarter EXCEPT ![t] = IF SlabsPerChunk > 1 THEN <<hq>> ELSE <<>>]
    BY <1>4 DEF NewSmallSlab, NewChunk, NewSlab
  <2>2. \A s \in Slabs : class'[s] # "none" /\ kind'[s[1]] = "Small" => s[2] <= used'[s[1]]
    <3> TAKE s \in Slabs
    <3> HAVE class'[s] # "none" /\ kind'[s[1]] = "Small"
    <3>1. CASE s = <<hq, 1>>
      BY <1>0, <1>9, <2>1, <3>1
    <3>2. CASE s # <<hq, 1>>
      <4>1. class[s] # "none"
        BY <1>9, <2>1, <3>2
      <4>2. s[1] # hq
        BY <2>1, <4>1 DEF SlabsOwned
      <4> QED BY <1>0, <2>1, <1>9, <4>1, <4>2 DEF SlabsOwned
    <3> QED BY <3>1, <3>2
  <2>3. ASSUME NEW u \in Threads, u # t
        PROVE  /\ IsInjective(headquarter'[u])
               /\ \A k \in Range(headquarter'[u]) :
                    kind'[k] = "Small" /\ owner'[k] = remote_alloc[u] /\ used'[k] < SlabsPerChunk
    <3>1. headquarter'[u] = headquarter[u]
      BY <1>9, <2>1, <2>3
    <3>2. \A k \in Range(headquarter[u]) : k # hq
      BY <1>2, <2>1
    <3> QED BY <1>1, <1>2, <2>1, <1>9, <3>1, <3>2 DEF SlabsOwned
  <2>4. /\ IsInjective(headquarter'[t])
        /\ \A k \in Range(headquarter'[t]) :
             kind'[k] = "Small" /\ owner'[k] = remote_alloc[t] /\ used'[k] < SlabsPerChunk
    <3>1. headquarter'[t] = IF SlabsPerChunk > 1 THEN <<hq>> ELSE <<>>
      BY <2>1 DEF TypeOK
    <3>2. IsInjective(headquarter'[t])
      BY <3>1 DEF IsInjective
    <3>3. \A k \in Range(headquarter'[t]) : k = hq /\ SlabsPerChunk > 1
      BY <3>1 DEF Range
    <3> QED BY <2>1, <3>2, <1>9, <3>3, ThreadAllocatorConstants
  <2>5. \A k \in Chunks : owner'[k] = NoId <=> kind'[k] = "Wild"
    BY <1>0, <2>1, <1>9, NoIdApart
  <2> QED BY <2>2, <2>3, <2>4, <2>5
<1>5. ASSUME NEW c \in Classes, NEW hq \in Chunks, NewMediumSlab(t, c, hq)
      PROVE  /\ \A k \in Chunks : owner'[k] = NoId <=> kind'[k] = "Wild"
             /\ \A s \in Slabs : class'[s] # "none" /\ kind'[s[1]] = "Small" => s[2] <= used'[s[1]]
             /\ \A u \in Threads :
                  /\ IsInjective(headquarter'[u])
                  /\ \A k \in Range(headquarter'[u]) :
                       kind'[k] = "Small" /\ owner'[k] = remote_alloc[u] /\ used'[k] < SlabsPerChunk
  <2>1. /\ owner[hq] = NoId
        /\ owner' = [owner EXCEPT ![hq] = remote_alloc[t]] /\ kind' = [kind EXCEPT ![hq] = "Medium"]
        /\ used' = used /\ headquarter' = headquarter
        /\ class' = [class EXCEPT ![<<hq, 1>>] = c]
    BY <1>5 DEF NewMediumSlab, NewChunk, NewSlab
  <2>2. \A s \in Slabs : class'[s] # "none" /\ kind'[s[1]] = "Small" => s[2] <= used'[s[1]]
    <3> TAKE s \in Slabs
    <3> HAVE class'[s] # "none" /\ kind'[s[1]] = "Small"
    <3>1. s[1] # hq
      BY <1>0, <1>9, <2>1
    <3>2. class[s] # "none" /\ kind[s[1]] = "Small"
      BY <1>0, <1>9, <2>1, <3>1
    <3> QED BY <2>1, <3>2 DEF SlabsOwned
  <2>3. \A u \in Threads :
          /\ IsInjective(headquarter'[u])
          /\ \A k \in Range(headquarter'[u]) :
               kind'[k] = "Small" /\ owner'[k] = remote_alloc[u] /\ used'[k] < SlabsPerChunk
    <3> TAKE u \in Threads
    <3>1. \A k \in Range(headquarter[u]) : k # hq
      BY <1>2, <2>1
    <3> QED BY <1>1, <1>2, <2>1, <1>9, <3>1 DEF SlabsOwned
  <2>4. \A k \in Chunks : owner'[k] = NoId <=> kind'[k] = "Wild"
    BY <1>0, <2>1, <1>9, NoIdApart
  <2> QED BY <2>2, <2>3, <2>4
<1>6. CASE \E c \in Classes, hq \in Chunks :
             /\ Allocates(t, c) /\ MetaSlab(t, c, hq) /\ hq \in Range(headquarter[t])
             /\ owner[hq] = remote_alloc[t] /\ used[hq] < SlabsPerChunk
             /\ <<hq, used[hq] + 1>> \in Slabs
  BY <1>3, <1>6, Zenon
<1>7. CASE \E c \in Classes, hq \in Chunks : Allocates(t, c) /\ NewSmallSlab(t, c, hq)
  BY <1>4, <1>7, Zenon
<1>8. CASE \E c \in Classes, k \in Chunks : Allocates(t, c) /\ NewMediumSlab(t, c, k)
  BY <1>5, <1>8, Zenon
<1> QED BY <1>6, <1>7, <1>8, Zenon DEF Makes

-----------------------------------------------------------------------------
(* Every move keeps the owners of slabs in use.                            *)
LEMMA SlabsOwnedStep ==
  ASSUME TypeOK, TypeOK', SlabsOwned, IdsApart, ListedIffAvailable, NEW t \in Threads, Move(t)
  PROVE  SlabsOwned'
<1>1. CASE Makes(t)
  <2>1. PICK c \in Classes, slab \in Slabs : Made(t, c, slab)
    BY <1>1, MakesSlab
  <2>2. /\ owner' = [owner EXCEPT ![slab[1]] = remote_alloc[t]]
        /\ class' = [class EXCEPT ![slab] = c]
        /\ pc[t] = "body" /\ UNCHANGED <<remote_alloc, pooled>>
    BY <2>1 DEF Made, NewSlab, Allocates, Returns
  <2>3. /\ remote_alloc[t] # NoId
        /\ owner \in [Chunks -> Ids \cup {NoId}] /\ class \in [Slabs -> Classes \cup {"none"}]
        /\ \A s \in Slabs : s[1] \in Chunks
    BY <2>2, NoIdApart DEF TypeOK, Slabs
  <2>4. \A k \in Chunks : owner'[k] # NoId =>
          owner'[k] \in Range(pooled') \/ \E u \in Threads : remote_alloc'[u] = owner'[k]
    BY <2>2, <2>3 DEF SlabsOwned
  <2>5. \A s \in Slabs : class'[s] # "none" => owner'[s[1]] # NoId
    BY <2>2, <2>3 DEF SlabsOwned
  <2> QED BY <1>1, <2>4, <2>5, MakesChunk DEF SlabsOwned
<1>2. CASE UNCHANGED <<owner, kind, used, class>>
  <2>1. CASE Start(t)
    <3>1. UNCHANGED headquarter
      BY <2>1 DEF Start, slabs
    <3>2. ASSUME NEW k \in Chunks, owner[k] # NoId
          PROVE  owner[k] \in Range(pooled') \/ \E u \in Threads : remote_alloc'[u] = owner[k]
      <4>1. pooled \in Seq(Ids) /\ remote_alloc \in [Threads -> Ids \cup {NoId}]
            /\ remote_alloc[t] = NoId
        BY <2>1 DEF TypeOK, Start
      <4>2. owner[k] \in Range(pooled) \/ \E u \in Threads : remote_alloc[u] = owner[k]
        BY <3>2 DEF SlabsOwned
      <4>3. CASE \E u \in Threads : remote_alloc[u] = owner[k]
        <5>1. PICK u \in Threads : remote_alloc[u] = owner[k]
          BY <4>3
        <5>2. remote_alloc'[u] = owner[k]
          BY <2>1, <3>2, <4>1, <5>1 DEF Start
        <5> QED BY <5>2
      <4>4. CASE owner[k] \in Range(pooled)
        <5>1. CASE pooled # <<>>
          <6>1. Range(pooled') = Range(pooled) \ {Head(pooled)}
            BY <2>1, <4>1, <5>1, InjectiveTail DEF Start, IdsApart
          <6>2. remote_alloc'[t] = Head(pooled)
            BY <2>1, <4>1, <5>1 DEF Start
          <6> QED BY <4>4, <6>1, <6>2
        <5>2. CASE pooled = <<>>
          BY <2>1, <4>4, <5>2 DEF Start
        <5> QED BY <5>1, <5>2
      <4> QED BY <4>2, <4>3, <4>4
    <3> QED BY <1>2, <3>1, <3>2 DEF SlabsOwned
  <2>2. CASE Release(t)
    <3>1. pooled \in Seq(Ids) /\ remote_alloc \in [Threads -> Ids \cup {NoId}] /\ remote_alloc[t] \in Ids
      BY <2>2 DEF TypeOK, Release
    <3>2. Range(pooled') = {remote_alloc[t]} \cup Range(pooled)
      BY <2>2, <3>1, SeqCons DEF Release
    <3>3. \A u \in Threads \ {t} : remote_alloc'[u] = remote_alloc[u]
      BY <2>2, <3>1 DEF Release
    <3>4. \A k \in Chunks : owner[k] # NoId =>
            owner[k] \in Range(pooled') \/ \E u \in Threads : remote_alloc'[u] = owner[k]
      BY <3>2, <3>3 DEF SlabsOwned
    <3>5. \A u \in Threads : headquarter'[u] = headquarter[u] \/ headquarter'[u] = <<>>
      BY <2>2 DEF Release, TypeOK
    <3>6. IsInjective(<<>>) /\ Range(<<>>) = {}
      BY DEF IsInjective, Range
    <3> QED BY <1>2, <3>4, <3>5, <3>6 DEF SlabsOwned
  <2>3. CASE UNCHANGED <<remote_alloc, pooled>> /\ ~Start(t) /\ ~Release(t) /\ ~Makes(t)
    <3>1. UNCHANGED headquarter
      BY <2>3 DEF Move, Makes, Begins, Call, TakesOwn, Forwards, Takes, ProcessDone, Pushes, Distributes,
                  PostDone, AllocListed, FreesOwn, FreesRemote, UseLarge, Exit, LocalDealloc, slabs
    <3> QED BY <1>2, <2>3, <3>1 DEF SlabsOwned
  <2> QED BY <1>1, <2>1, <2>2, <2>3, IdsFrame
<1> QED BY <1>1, <1>2, SlabsFrame

(* Every move keeps queued messages on their way to the owner of their     *)
(* object.                                                                 *)
LEMMA QueuedForOwnerStep ==
  ASSUME TypeOK, TypeOK', SlabsOwned, QueuedForOwner, CachedForOthers, NEW t \in Threads, Move(t)
  PROVE  QueuedForOwner'
<1>1. \A id \in Ids : \A msg \in Range(queue[id]) : msg \in Messages
  <2> TAKE id \in Ids
  <2>1. queue[id] \in Seq(Messages)
    BY DEF TypeOK
  <2> QED BY <2>1 DEF Range
<1>2. \A msg \in Messages : msg[1][1] \in Chunks /\ msg[2] # NoId
  BY ObjectFacts, NoIdApart DEF Messages
<1>3. CASE Makes(t)
  <2>1. PICK c \in Classes, slab \in Slabs : Made(t, c, slab)
    BY <1>3, MakesSlab
  <2>2. /\ owner' = [owner EXCEPT ![slab[1]] = remote_alloc[t]] /\ queue' = queue
        /\ owner[slab[1]] \in {NoId, remote_alloc[t]}
    BY <2>1 DEF Made, Allocates, Returns, messages
  <2>3. owner \in [Chunks -> Ids \cup {NoId}]
    BY DEF TypeOK
  <2>4. \A id \in Ids : \A msg \in Range(queue[id]) : owner'[msg[1][1]] = owner[msg[1][1]]
    BY <1>1, <1>2, <2>2, <2>3 DEF QueuedForOwner
  <2> QED BY <2>2, <2>4 DEF QueuedForOwner
<1>4. CASE UNCHANGED <<queue, owner>>
  BY <1>4 DEF QueuedForOwner
<1>5. ASSUME NEW id \in Ids, NEW msg \in Messages, Takes(t, id, msg), UNCHANGED owner
      PROVE  QueuedForOwner'
  <2>1. queue[id] \in Seq(Messages) /\ queue[id] # <<>> /\ queue' = [queue EXCEPT ![id] = Tail(@)]
        /\ queue \in [Ids -> Seq(Messages)]
    BY <1>5 DEF TypeOK, Takes
  <2>2. Range(queue'[id]) \subseteq Range(queue[id]) /\ \A j \in Ids \ {id} : queue'[j] = queue[j]
    BY <2>1, SeqTail
  <2> QED BY <1>5, <2>2 DEF QueuedForOwner
<1>6. ASSUME NEW i \in RemoteSlots, NEW id \in Ids, Pushes(t, i, id)
      PROVE  QueuedForOwner'
  <2>1. /\ queue[id] \in Seq(Messages) /\ cache[t][i] \in Seq(Messages)
        /\ queue' = [queue EXCEPT ![id] = @ \o cache[t][i]]
        /\ queue \in [Ids -> Seq(Messages)] /\ owner' = owner
    BY <1>6 DEF TypeOK, Pushes
  <2>2. /\ Range(queue'[id]) = Range(queue[id]) \cup Range(cache[t][i])
        /\ \A j \in Ids \ {id} : queue'[j] = queue[j]
    BY <2>1, SeqConcat
  <2>3. \A msg \in Range(cache[t][i]) : msg[2] = owner[msg[1][1]]
    BY DEF CachedForOthers
  <2> QED BY <2>1, <2>2, <2>3 DEF QueuedForOwner
<1>7. \/ Makes(t) \/ UNCHANGED <<queue, owner>>
      \/ \E id \in Ids, msg \in Messages : Takes(t, id, msg) /\ UNCHANGED owner
      \/ \E i \in RemoteSlots, id \in Ids : Pushes(t, i, id)
  BY SlabsFrame DEF Move, Makes, Start, Begins, Call, TakesOwn, Forwards, ProcessDone, Distributes,
       PostDone, Allocates, Returns, AllocListed, FreesOwn, FreesRemote, UseLarge, Exit, Release,
       LocalDealloc, messages, slabs
<1> QED BY <1>3, <1>4, <1>5, <1>6, <1>7

-----------------------------------------------------------------------------
(* The lists of slabs.  A slab has finitely many objects, so whether it    *)
(* has free ones is seen in their number.                                  *)
LEMMA SlabFinite ==
  ASSUME NEW s \in Slabs
  PROVE  /\ IsFiniteSet(ObjectsOf(s)) /\ ObjectsOf(s) # {}
         /\ \A obj \in ObjectsOf(s) : Cardinality(Slots) > 1 <=> ObjectsOf(s) \ {obj} # {}
<1> DEFINE f == [n \in Slots |-> <<s[1], s[2], n>>]
<1>1. f \in Bijection(Slots, ObjectsOf(s))
  <2>1. f \in [Slots -> ObjectsOf(s)]
    BY DEF ObjectsOf
  <2>2. \A a, b \in Slots : f[a] = f[b] => a = b
    OBVIOUS
  <2>3. \A obj \in ObjectsOf(s) : \E n \in Slots : f[n] = obj
    BY DEF ObjectsOf
  <2> HIDE DEF f
  <2> QED BY <2>1, <2>2, <2>3 DEF Bijection, Injection, Surjection, IsInjective
<1>2. IsFiniteSet(ObjectsOf(s)) /\ Cardinality(ObjectsOf(s)) = Cardinality(Slots)
  BY <1>1, FS_Bijection, ThreadAllocatorConstants DEF ExistsBijection
<1>3. ObjectsOf(s) # {}
  BY ThreadAllocatorConstants DEF ObjectsOf
<1>4. ASSUME NEW obj \in ObjectsOf(s)
      PROVE  Cardinality(Slots) > 1 <=> ObjectsOf(s) \ {obj} # {}
  <2>1. /\ IsFiniteSet(ObjectsOf(s) \ {obj})
        /\ Cardinality(ObjectsOf(s) \ {obj}) = Cardinality(ObjectsOf(s)) - 1
    BY <1>2, FS_RemoveElement
  <2>2. Cardinality(ObjectsOf(s) \ {obj}) \in Nat /\ Cardinality(ObjectsOf(s)) \in Nat
    BY <1>2, <2>1, FS_CardinalityType
  <2>3. Cardinality(ObjectsOf(s) \ {obj}) = 0 <=> ObjectsOf(s) \ {obj} = {}
    BY <2>1, FS_EmptySet
  <2> QED BY <1>2, <2>1, <2>2, <2>3
<1> QED BY <1>2, <1>3, <1>4

(* An object that is freed in its owner's slab puts the slab in the list,  *)
(* if it was full.                                                         *)
LEMMA ListsLocalDealloc ==
  ASSUME TypeOK, TypeOK', IdsApart, ListedIffAvailable, LeftBehind,
         NEW t \in Threads, NEW obj \in Objects, LocalDealloc(t, obj),
         pc[t] # "off", owner[obj[1]] = remote_alloc[t], class[SlabOf(obj)] # "none",
         UNCHANGED <<remote_alloc, pooled, orphaned>>
  PROVE  ListedIffAvailable' /\ LeftBehind'
<1> DEFINE slab == SlabOf(obj)
           c == class[slab]
<1>1. /\ slab \in Slabs /\ owner[slab[1]] = remote_alloc[t] /\ c # "none" /\ c \in Classes
      /\ lists[t][c] \in Seq(Slabs)
      /\ lists \in [Threads -> [Classes -> Seq(Slabs)]] /\ free \in [Slabs -> SUBSET Objects]
  BY ObjectFacts DEF TypeOK
<1>2. /\ free' = [free EXCEPT ![slab] = @ \cup {obj}]
      /\ lists' = IF free[slab] = {} THEN [lists EXCEPT ![t][c] = <<slab>> \o @] ELSE lists
      /\ UNCHANGED <<headquarter, owner, kind, used, class>>
  BY DEF LocalDealloc
<1>3. /\ \A s \in Slabs \ {slab} : free'[s] = free[s]
      /\ free'[slab] # {}
  BY <1>1, <1>2
<1>4. \A u \in Threads : pc'[u] = "off" <=> pc[u] = "off"
  BY DEF TypeOK
<1>5. \A u \in Threads \ {t} : lists'[u] = lists[u]
  BY <1>1, <1>2
<1>6. slab \notin orphaned \/ free[slab] # {}
  BY DEF LeftBehind
<1>7. \A u \in Threads, s \in Slabs :
        pc[u] # "off" /\ owner[s[1]] = remote_alloc[u] /\ class[s] # "none" =>
          (s \in Range(lists[u][class[s]]) <=> free[s] # {} /\ s \notin orphaned)
  BY DEF ListedIffAvailable
<1>8. \A u \in Threads, d \in Classes :
        /\ IsInjective(lists[u][d])
        /\ \A s \in Range(lists[u][d]) : class[s] = d /\ owner[s[1]] = remote_alloc[u]
  BY DEF ListedIffAvailable
<1>9. /\ \A d \in Classes \ {c} : lists'[t][d] = lists[t][d]
      /\ IsInjective(lists'[t][c])
      /\ Range(lists'[t][c]) = IF free[slab] = {} THEN {slab} \cup Range(lists[t][c])
                                                  ELSE Range(lists[t][c])
  <2>1. CASE free[slab] = {}
    <3>1. slab \notin Range(lists[t][c])
      BY <1>1, <1>7, <2>1
    <3>2. lists'[t][c] = <<slab>> \o lists[t][c] /\ \A d \in Classes \ {c} : lists'[t][d] = lists[t][d]
      BY <1>1, <1>2, <2>1
    <3>3. IsInjective(<<slab>> \o lists[t][c])
      BY <1>1, <1>8, <3>1, InjectiveCons
    <3>4. Range(<<slab>> \o lists[t][c]) = {slab} \cup Range(lists[t][c])
      BY <1>1, SeqCons
    <3> QED BY <2>1, <3>2, <3>3, <3>4
  <2>2. CASE free[slab] # {}
    BY <1>1, <1>2, <1>8, <2>2
  <2> QED BY <2>1, <2>2
<1>14. /\ class[slab] = c /\ orphaned \subseteq Slabs
       /\ \A u \in Threads \ {t} : pc[u] # "off" => remote_alloc[u] # remote_alloc[t]
       /\ UNCHANGED <<headquarter, owner, kind, used, class>>
  BY <1>2 DEF TypeOK, IdsApart
<1> HIDE DEF slab, c
<1>10. ASSUME NEW u \in Threads, NEW s \in Slabs, pc[u] # "off", owner[s[1]] = remote_alloc[u],
              class[s] # "none"
       PROVE  s \in Range(lists'[u][class[s]]) <=> free'[s] # {} /\ s \notin orphaned
  <2>0. class[s] \in Classes
    BY <1>10 DEF TypeOK
  <2>1. CASE u = t /\ s = slab
    BY <1>1, <1>3, <1>6, <1>7, <1>9, <1>10, <1>14, <2>1
  <2>2. CASE u = t /\ s # slab
    BY <1>3, <1>7, <1>9, <1>10, <2>0, <2>2
  <2>3. CASE u # t
    <3>1. s # slab
      BY <1>1, <1>10, <1>14, <2>3
    <3> QED BY <1>3, <1>5, <1>7, <1>10, <2>3, <3>1
  <2> QED BY <2>1, <2>2, <2>3
<1>11. ASSUME NEW u \in Threads, NEW d \in Classes
       PROVE  /\ IsInjective(lists'[u][d])
              /\ \A s \in Range(lists'[u][d]) : class[s] = d /\ owner[s[1]] = remote_alloc[u]
  <2>1. CASE u = t /\ d = c
    BY <1>1, <1>8, <1>9, <1>14, <2>1
  <2>2. CASE u = t /\ d # c
    BY <1>8, <1>9, <2>2
  <2>3. CASE u # t
    BY <1>5, <1>8, <2>3
  <2> QED BY <2>1, <2>2, <2>3
<1>12. ListedIffAvailable'
  BY <1>4, <1>10, <1>11, <1>14 DEF ListedIffAvailable
<1>13. LeftBehind'
  <2>1. \A s \in orphaned : class[s] # "none" /\ free'[s] # {}
    BY <1>3, <1>14 DEF LeftBehind
  <2>2. \A s \in Slabs : class[s] # "none" /\ owner[s[1]] \in Range(pooled) =>
          free'[s] = {} \/ s \in orphaned
    BY <1>1, <1>3 DEF LeftBehind, IdsApart
  <2> QED BY <1>14, <2>1, <2>2 DEF LeftBehind
<1> QED BY <1>12, <1>13

(* A slab from which the last free object is taken leaves the list.        *)
LEMMA ListsAllocListed ==
  ASSUME TypeOK, TypeOK', IdsApart, ListedIffAvailable, LeftBehind,
         NEW t \in Threads, NEW d \in Classes, AllocListed(t, d),
         pc[t] # "off", UNCHANGED <<remote_alloc, pooled, orphaned>>
  PROVE  ListedIffAvailable' /\ LeftBehind'
<1> DEFINE slab == Head(lists[t][d])
<1>1. /\ lists[t][d] \in Seq(Slabs) /\ lists[t][d] # <<>>
      /\ lists \in [Threads -> [Classes -> Seq(Slabs)]] /\ free \in [Slabs -> SUBSET Objects]
  BY DEF TypeOK, AllocListed
<1>2. slab \in Slabs /\ slab \in Range(lists[t][d])
  BY <1>1, SeqTail
<1>3. PICK obj \in free[slab] : free' = [free EXCEPT ![slab] = @ \ {obj}]
  BY DEF AllocListed
<1>4. /\ lists' = IF Cardinality(free[slab]) = 1 THEN [lists EXCEPT ![t][d] = Tail(@)] ELSE lists
      /\ UNCHANGED <<headquarter, owner, kind, used, class>>
  BY DEF AllocListed
<1>5. Cardinality(free[slab]) = 1 <=> free'[slab] = {}
  <2>1. IsFiniteSet(free[slab])
    BY <1>2, SlabFinite, FS_Subset DEF TypeOK
  <2>2. Cardinality(free[slab]) = 1 <=> \E x : free[slab] = {x}
    BY <2>1, FS_Singleton
  <2> QED BY <1>1, <1>2, <1>3, <2>2, ZenonT(40)
<1>6. \A s \in Slabs \ {slab} : free'[s] = free[s]
  BY <1>1, <1>3
<1>7. \A u \in Threads, s \in Slabs :
        pc[u] # "off" /\ owner[s[1]] = remote_alloc[u] /\ class[s] # "none" =>
          (s \in Range(lists[u][class[s]]) <=> free[s] # {} /\ s \notin orphaned)
  BY DEF ListedIffAvailable
<1>8. \A u \in Threads, c \in Classes :
        /\ IsInjective(lists[u][c])
        /\ \A s \in Range(lists[u][c]) : class[s] = c /\ owner[s[1]] = remote_alloc[u]
  BY DEF ListedIffAvailable
<1>9. IsInjective(Tail(lists[t][d])) /\ Range(Tail(lists[t][d])) = Range(lists[t][d]) \ {slab}
  BY <1>1, <1>8, InjectiveTail
<1> HIDE DEF slab
<1>10. class[slab] = d /\ owner[slab[1]] = remote_alloc[t] /\ slab \notin orphaned /\ d # "none"
  <2>1. class[slab] = d /\ owner[slab[1]] = remote_alloc[t] /\ d # "none"
    BY <1>2, <1>8, ThreadAllocatorConstants
  <2> QED BY <1>2, <1>7, <2>1
<1>11. /\ \A u \in Threads \ {t} : lists'[u] = lists[u]
       /\ \A c \in Classes \ {d} : lists'[t][c] = lists[t][c]
       /\ IsInjective(lists'[t][d])
       /\ Range(lists'[t][d]) = IF free'[slab] = {} THEN Range(lists[t][d]) \ {slab}
                                                   ELSE Range(lists[t][d])
  <2>1. CASE free'[slab] = {}
    BY <1>1, <1>4, <1>5, <1>9, <2>1
  <2>2. CASE free'[slab] # {}
    BY <1>1, <1>4, <1>5, <1>8, <2>2
  <2> QED BY <2>1, <2>2
<1>12. /\ \A u \in Threads : pc'[u] = "off" <=> pc[u] = "off"
       /\ \A u \in Threads \ {t} : pc[u] # "off" => remote_alloc[u] # remote_alloc[t]
       /\ orphaned \subseteq Slabs
  BY DEF TypeOK, IdsApart
<1>13. ASSUME NEW u \in Threads, NEW s \in Slabs, pc[u] # "off", owner[s[1]] = remote_alloc[u],
              class[s] # "none"
       PROVE  s \in Range(lists'[u][class[s]]) <=> free'[s] # {} /\ s \notin orphaned
  <2>0. class[s] \in Classes
    BY <1>13 DEF TypeOK
  <2>1. CASE u = t /\ s = slab
    BY <1>2, <1>10, <1>11, <2>1
  <2>2. CASE u = t /\ s # slab
    BY <1>6, <1>7, <1>11, <1>13, <2>0, <2>2
  <2>3. CASE u # t
    <3>1. s # slab
      BY <1>10, <1>12, <1>13, <2>3
    <3> QED BY <1>6, <1>7, <1>11, <1>13, <2>3, <3>1
  <2> QED BY <2>1, <2>2, <2>3
<1>14. ASSUME NEW u \in Threads, NEW c \in Classes
       PROVE  /\ IsInjective(lists'[u][c])
              /\ \A s \in Range(lists'[u][c]) : class[s] = c /\ owner[s[1]] = remote_alloc[u]
  <2>1. CASE u = t /\ c = d
    BY <1>8, <1>11, <2>1
  <2>2. CASE u = t /\ c # d
    BY <1>8, <1>11, <2>2
  <2>3. CASE u # t
    BY <1>8, <1>11, <2>3
  <2> QED BY <2>1, <2>2, <2>3
<1>15. ListedIffAvailable'
  BY <1>4, <1>12, <1>13, <1>14 DEF ListedIffAvailable
<1>16. LeftBehind'
  <2>1. \A s \in orphaned : class[s] # "none" /\ free'[s] # {}
    BY <1>6, <1>10, <1>12 DEF LeftBehind
  <2>2. \A s \in Slabs : class[s] # "none" /\ owner[s[1]] \in Range(pooled) =>
          free'[s] = {} \/ s \in orphaned
    BY <1>6, <1>10 DEF LeftBehind, IdsApart
  <2> QED BY <1>4, <2>1, <2>2 DEF LeftBehind
<1> QED BY <1>15, <1>16

(* A slab that is made is listed, if it has an object left.                *)
LEMMA ListsMakes ==
  ASSUME TypeOK, TypeOK', IdsApart, SlabsOwned, ListedIffAvailable, LeftBehind,
         NEW t \in Threads, Makes(t)
  PROVE  ListedIffAvailable' /\ LeftBehind'
<1>1. PICK d \in Classes, slab \in Slabs : Made(t, d, slab)
  BY MakesSlab
<1>2. /\ class[slab] = "none" /\ lists[t][d] = <<>> /\ pc[t] = "body"
      /\ owner[slab[1]] \in {NoId, remote_alloc[t]}
      /\ owner' = [owner EXCEPT ![slab[1]] = remote_alloc[t]]
      /\ class' = [class EXCEPT ![slab] = d]
      /\ lists' = IF Cardinality(Slots) > 1 THEN [lists EXCEPT ![t][d] = <<slab>> \o @] ELSE lists
      /\ UNCHANGED <<remote_alloc, pooled, orphaned>>
  BY <1>1 DEF Made, NewSlab, Allocates, Returns
<1>3. PICK obj \in ObjectsOf(slab) : free' = [free EXCEPT ![slab] = ObjectsOf(slab) \ {obj}]
  BY <1>1 DEF Made, NewSlab
<1>4. /\ lists \in [Threads -> [Classes -> Seq(Slabs)]] /\ free \in [Slabs -> SUBSET Objects]
      /\ owner \in [Chunks -> Ids \cup {NoId}] /\ class \in [Slabs -> Classes \cup {"none"}]
      /\ slab[1] \in Chunks /\ \A s \in Slabs : s[1] \in Chunks
      /\ orphaned \subseteq Slabs /\ d # "none"
  <2>1. \A s \in Slabs : s[1] \in Chunks
    BY DEF Slabs
  <2>2. d # "none"
    BY ThreadAllocatorConstants
  <2> QED BY <2>1, <2>2 DEF TypeOK
<1>5. Cardinality(Slots) > 1 <=> free'[slab] # {}
  BY <1>3, <1>4, SlabFinite
<1>6. /\ \A s \in Slabs \ {slab} : free'[s] = free[s] /\ class'[s] = class[s]
      /\ class'[slab] = d /\ owner'[slab[1]] = remote_alloc[t]
      /\ \A s \in Slabs \ {slab} : class[s] # "none" => owner'[s[1]] = owner[s[1]]
  <2>1. \A s \in Slabs : class[s] # "none" => owner[s[1]] # NoId
    BY DEF SlabsOwned
  <2> QED BY <1>2, <1>3, <1>4, <2>1
<1>7. \A u \in Threads, s \in Slabs :
        pc[u] # "off" /\ owner[s[1]] = remote_alloc[u] /\ class[s] # "none" =>
          (s \in Range(lists[u][class[s]]) <=> free[s] # {} /\ s \notin orphaned)
  BY DEF ListedIffAvailable
<1>8. \A u \in Threads, c \in Classes :
        /\ IsInjective(lists[u][c])
        /\ \A s \in Range(lists[u][c]) : /\ class[s] = c /\ owner[s[1]] = remote_alloc[u]
                                         /\ s \in Slabs /\ s # slab /\ class[s] # "none"
  <2> TAKE u \in Threads, c \in Classes
  <2>1. lists[u][c] \in Seq(Slabs)
    BY <1>4
  <2>2. \A s \in Range(lists[u][c]) : s \in Slabs
    BY <2>1 DEF Range
  <2>3. c # "none"
    BY ThreadAllocatorConstants
  <2> QED BY <1>2, <2>2, <2>3 DEF ListedIffAvailable
<1>9. /\ \A u \in Threads \ {t} : lists'[u] = lists[u]
      /\ \A c \in Classes \ {d} : lists'[t][c] = lists[t][c]
      /\ IsInjective(lists'[t][d])
      /\ Range(lists'[t][d]) = IF free'[slab] = {} THEN {} ELSE {slab}
  <2>0. IsInjective(<<>>) /\ Range(<<>>) = {}
    BY DEF IsInjective, Range
  <2>1. CASE free'[slab] = {}
    BY <1>2, <1>4, <1>5, <2>0, <2>1
  <2>2. CASE free'[slab] # {}
    <3>1. lists'[t][d] = <<slab>> \o <<>>
      BY <1>2, <1>4, <1>5, <2>2
    <3>2. <<>> \in Seq(Slabs)
      OBVIOUS
    <3>3. IsInjective(<<slab>> \o <<>>)
      BY <2>0, <3>2, InjectiveCons
    <3>4. Range(<<slab>> \o <<>>) = {slab}
      <4>1. Range(<<slab>> \o <<>>) = {slab} \cup Range(<<>>)
        BY <3>2, SeqCons
      <4> QED BY <2>0, <4>1
    <3> QED BY <1>2, <1>4, <1>5, <2>2, <3>1, <3>3, <3>4
  <2> QED BY <2>1, <2>2
<1>10. /\ \A u \in Threads : pc'[u] = "off" <=> pc[u] = "off"
       /\ \A u \in Threads \ {t} : pc[u] # "off" => remote_alloc[u] # remote_alloc[t]
       /\ \A u \in Threads : remote_alloc[u] = NoId <=> pc[u] = "off"
  BY <1>2, ZenonT(40) DEF TypeOK, IdsApart
<1>11. slab \notin orphaned
  BY <1>2 DEF LeftBehind
<1>12. ASSUME NEW u \in Threads, NEW s \in Slabs, pc[u] # "off", owner'[s[1]] = remote_alloc[u],
              class'[s] # "none"
       PROVE  s \in Range(lists'[u][class'[s]]) <=> free'[s] # {} /\ s \notin orphaned
  <2>0. class'[s] \in Classes
    BY <1>12 DEF TypeOK
  <2>1. CASE s = slab
    <3>1. u = t
      BY <1>6, <1>10, <1>12, <2>1
    <3> QED BY <1>6, <1>9, <1>11, <2>1, <3>1
  <2>2. CASE s # slab
    <3>1. class[s] # "none" /\ class'[s] = class[s] /\ owner[s[1]] = remote_alloc[u] /\ free'[s] = free[s]
      BY <1>6, <1>12, <2>2
    <3>2. s \in Range(lists[u][class[s]]) <=> free[s] # {} /\ s \notin orphaned
      BY <1>7, <1>12, <3>1
    <3>3. CASE u = t /\ class[s] = d
      <4>1. Range(lists[t][d]) = {}
        BY <1>2 DEF Range
      <4> QED BY <1>9, <2>2, <3>1, <3>2, <3>3, <4>1
    <3>4. CASE ~(u = t /\ class[s] = d)
      <4>1. lists'[u][class[s]] = lists[u][class[s]]
        BY <1>9, <2>0, <3>1, <3>4
      <4> QED BY <3>1, <3>2, <4>1
    <3> QED BY <3>3, <3>4
  <2> QED BY <2>1, <2>2
<1>13. ASSUME NEW u \in Threads, NEW c \in Classes
       PROVE  /\ IsInjective(lists'[u][c])
              /\ \A s \in Range(lists'[u][c]) : class'[s] = c /\ owner'[s[1]] = remote_alloc[u]
  <2>1. CASE u = t /\ c = d
    BY <1>6, <1>9, <2>1
  <2>2. CASE ~(u = t /\ c = d)
    <3>1. lists'[u][c] = lists[u][c]
      BY <1>9, <2>2
    <3> QED BY <1>6, <1>8, <3>1
  <2> QED BY <2>1, <2>2
<1>14. \A u \in Threads : \A k \in Range(headquarter'[u]) :
         owner'[k] = remote_alloc[u] /\ used'[k] < SlabsPerChunk
  BY MakesChunk
<1>15. ListedIffAvailable'
  BY <1>2, <1>10, <1>12, <1>13, <1>14 DEF ListedIffAvailable
<1>16. LeftBehind'
  <2>1. \A s \in orphaned : class'[s] # "none" /\ free'[s] # {}
    BY <1>4, <1>6, <1>11 DEF LeftBehind
  <2>2. ASSUME NEW s \in Slabs, class'[s] # "none", owner'[s[1]] \in Range(pooled)
        PROVE  free'[s] = {} \/ s \in orphaned
    <3>1. s # slab
      BY <1>6, <2>2 DEF IdsApart
    <3>2. class[s] # "none" /\ owner[s[1]] \in Range(pooled) /\ free'[s] = free[s]
      BY <1>6, <2>2, <3>1
    <3> QED BY <3>2 DEF LeftBehind
  <2> QED BY <1>2, <2>1, <2>2 DEF LeftBehind
<1> QED BY <1>15, <1>16

(* A thread that starts with a released id has the slabs that were left    *)
(* behind with it.                                                         *)
LEMMA ListsStart ==
  ASSUME TypeOK, TypeOK', IdsApart, SlabsOwned, ListedIffAvailable, LeftBehind,
         NEW t \in Threads, Start(t)
  PROVE  ListedIffAvailable' /\ LeftBehind'
<1>1. /\ pc[t] = "off" /\ remote_alloc[t] = NoId /\ pc' = [pc EXCEPT ![t] = "idle"]
      /\ UNCHANGED <<lists, headquarter, owner, kind, used, class, free, orphaned>>
      /\ pooled \in Seq(Ids)
      /\ \A u \in Threads \ {t} : pc'[u] = pc[u]
  BY DEF Start, slabs, TypeOK
<1>2. PICK id \in Ids : /\ remote_alloc' = [remote_alloc EXCEPT ![t] = id]
                        /\ Range(pooled') \subseteq Range(pooled)
                        /\ \A k \in Chunks : owner[k] = id => id \in Range(pooled)
  <2>1. CASE pooled # <<>>
    <3>1. Head(pooled) \in Ids /\ Range(pooled') \subseteq Range(pooled) /\ Head(pooled) \in Range(pooled)
      BY <1>1, <2>1, SeqTail DEF Start
    <3> QED BY <2>1, <3>1 DEF Start
  <2>2. CASE pooled = <<>>
    <3>1. PICK id \in NeverUsed : remote_alloc' = [remote_alloc EXCEPT ![t] = id] /\ pooled' = pooled
      BY <2>2 DEF Start
    <3>2. id \in Ids /\ id # NoId /\ \A u \in Threads : remote_alloc[u] # id
      BY <3>1, NoIdApart DEF NeverUsed
    <3>3. \A k \in Chunks : owner[k] = id => id \in Range(pooled)
      BY <3>2 DEF SlabsOwned
    <3> QED BY <3>1, <3>2, <3>3
  <2> QED BY <2>1, <2>2
<1>3. remote_alloc'[t] = id /\ \A u \in Threads \ {t} : remote_alloc'[u] = remote_alloc[u]
  BY <1>2 DEF TypeOK
<1>4. \A c \in Classes : Range(lists[t][c]) = {}
  <2> SUFFICES ASSUME NEW c \in Classes, NEW s \in Range(lists[t][c]) PROVE FALSE
    OBVIOUS
  <2>1. lists[t][c] \in Seq(Slabs)
    BY DEF TypeOK
  <2>2. s \in Slabs
    BY <2>1 DEF Range
  <2>3. class[s] = c /\ owner[s[1]] = NoId /\ c # "none"
    BY <1>1, ThreadAllocatorConstants DEF ListedIffAvailable
  <2> QED BY <2>2, <2>3 DEF SlabsOwned
<1>5. Range(headquarter[t]) = {}
  <2> SUFFICES ASSUME NEW k \in Range(headquarter[t]) PROVE FALSE
    OBVIOUS
  <2>1. headquarter[t] \in Seq(Chunks)
    BY DEF TypeOK
  <2>2. k \in Chunks
    BY <2>1 DEF Range
  <2>3. kind[k] = "Small" /\ owner[k] = NoId
    BY <1>1 DEF ListedIffAvailable, SlabsOwned
  <2> QED BY <2>2, <2>3 DEF SlabsOwned
<1>6. ASSUME NEW s \in Slabs, owner[s[1]] = id, class[s] # "none"
      PROVE  free[s] = {} \/ s \in orphaned
  <2>1. s[1] \in Chunks
    BY DEF Slabs
  <2> QED BY <1>2, <1>6, <2>1 DEF LeftBehind
<1>7. ASSUME NEW u \in Threads, NEW s \in Slabs, pc'[u] # "off", owner[s[1]] = remote_alloc'[u],
             class[s] # "none"
      PROVE  s \in Range(lists[u][class[s]]) <=> free[s] # {} /\ s \notin orphaned
  <2>0. class[s] \in Classes
    BY <1>7 DEF TypeOK
  <2>1. CASE u = t
    BY <1>3, <1>4, <1>6, <1>7, <2>0, <2>1
  <2>2. CASE u # t
    BY <1>1, <1>3, <1>7, <2>2 DEF ListedIffAvailable
  <2> QED BY <2>1, <2>2
<1>8. ASSUME NEW u \in Threads, NEW c \in Classes
      PROVE  /\ IsInjective(lists[u][c])
             /\ \A s \in Range(lists[u][c]) : class[s] = c /\ owner[s[1]] = remote_alloc'[u]
  BY <1>3, <1>4 DEF ListedIffAvailable
<1>9. \A u \in Threads : \A k \in Range(headquarter[u]) :
        owner[k] = remote_alloc'[u] /\ used[k] < SlabsPerChunk
  BY <1>3, <1>5 DEF ListedIffAvailable
<1>10. ListedIffAvailable'
  BY <1>1, <1>7, <1>8, <1>9 DEF ListedIffAvailable
<1>11. LeftBehind'
  BY <1>1, <1>2 DEF LeftBehind
<1> QED BY <1>10, <1>11

(* A thread that exits leaves its slabs behind, the listed ones orphaned.  *)
LEMMA ListsRelease ==
  ASSUME TypeOK, TypeOK', IdsApart, SlabsOwned, ListedIffAvailable, LeftBehind,
         NEW t \in Threads, Release(t)
  PROVE  ListedIffAvailable' /\ LeftBehind'
<1>1. /\ pc[t] = "release" /\ pc' = [pc EXCEPT ![t] = "off"]
      /\ lists' = [lists EXCEPT ![t] = [c \in Classes |-> <<>>]]
      /\ headquarter' = [headquarter EXCEPT ![t] = <<>>]
      /\ orphaned' = orphaned \cup Listed(t)
      /\ UNCHANGED <<owner, kind, used, class, free>>
  BY DEF Release
<1>2. /\ remote_alloc[t] \in Ids /\ remote_alloc[t] # NoId
      /\ \A u \in Threads \ {t} :
           /\ remote_alloc'[u] = remote_alloc[u] /\ pc'[u] = pc[u]
           /\ lists'[u] = lists[u] /\ headquarter'[u] = headquarter[u]
      /\ pc'[t] = "off" /\ headquarter'[t] = <<>> /\ \A c \in Classes : lists'[t][c] = <<>>
      /\ Range(pooled') = {remote_alloc[t]} \cup Range(pooled)
  <2>1. remote_alloc[t] \in Ids /\ pooled \in Seq(Ids) /\ pooled' = <<remote_alloc[t]>> \o pooled
    BY DEF TypeOK, Release
  <2>2. Range(pooled') = {remote_alloc[t]} \cup Range(pooled)
    BY <2>1, SeqCons
  <2>3. remote_alloc[t] # NoId
    BY <2>1, NoIdApart
  <2>4. /\ \A u \in Threads \ {t} :
           /\ remote_alloc'[u] = remote_alloc[u] /\ pc'[u] = pc[u]
           /\ lists'[u] = lists[u] /\ headquarter'[u] = headquarter[u]
        /\ pc'[t] = "off" /\ headquarter'[t] = <<>> /\ \A c \in Classes : lists'[t][c] = <<>>
    BY <1>1 DEF TypeOK, Release
  <2> QED BY <2>1, <2>2, <2>3, <2>4
<1>3. /\ \A s \in Listed(t) : \E c \in Classes : s \in Range(lists[t][c])
      /\ \A c \in Classes : Range(lists[t][c]) \subseteq Listed(t)
  BY DEF Listed
<1>4. ASSUME NEW s \in Listed(t)
      PROVE  s \in Slabs /\ owner[s[1]] = remote_alloc[t] /\ class[s] # "none" /\ free[s] # {}
  <2>1. PICK c \in Classes : s \in Range(lists[t][c])
    BY <1>3
  <2>2. s \in Slabs
    <3>1. lists[t][c] \in Seq(Slabs)
      BY DEF TypeOK
    <3> QED BY <2>1, <3>1 DEF Range
  <2>3. class[s] = c /\ owner[s[1]] = remote_alloc[t] /\ c # "none"
    BY <2>1, ThreadAllocatorConstants DEF ListedIffAvailable
  <2>4. free[s] # {}
    BY <1>1, <2>1, <2>2, <2>3 DEF ListedIffAvailable
  <2> QED BY <2>2, <2>3, <2>4
<1>5. ASSUME NEW u \in Threads, NEW s \in Slabs, pc'[u] # "off", owner[s[1]] = remote_alloc'[u],
             class[s] # "none"
      PROVE  s \in Range(lists'[u][class[s]]) <=> free[s] # {} /\ s \notin orphaned'
  <2>1. u # t
    BY <1>2, <1>5
  <2>2. /\ pc[u] # "off" /\ owner[s[1]] = remote_alloc[u] /\ lists'[u] = lists[u]
        /\ remote_alloc[u] # remote_alloc[t]
    BY <1>2, <1>5, <2>1 DEF IdsApart
  <2>3. s \notin Listed(t)
    BY <1>4, <2>2
  <2> QED BY <1>1, <1>5, <2>2, <2>3 DEF ListedIffAvailable
<1>6. ASSUME NEW u \in Threads, NEW c \in Classes
      PROVE  /\ IsInjective(lists'[u][c])
             /\ \A s \in Range(lists'[u][c]) : class[s] = c /\ owner[s[1]] = remote_alloc'[u]
  <2>1. CASE u = t
    <3>1. IsInjective(<<>>) /\ Range(<<>>) = {}
      BY DEF IsInjective, Range
    <3> QED BY <1>2, <2>1, <3>1
  <2>2. CASE u # t
    BY <1>2, <2>2 DEF ListedIffAvailable
  <2> QED BY <2>1, <2>2
<1>7. \A u \in Threads : \A k \in Range(headquarter'[u]) :
        owner[k] = remote_alloc'[u] /\ used[k] < SlabsPerChunk
  <2> TAKE u \in Threads
  <2>1. CASE u = t
    <3>1. Range(<<>>) = {}
      BY DEF Range
    <3> QED BY <1>2, <2>1, <3>1
  <2>2. CASE u # t
    BY <1>2, <2>2 DEF ListedIffAvailable
  <2> QED BY <2>1, <2>2
<1>8. ListedIffAvailable'
  BY <1>1, <1>5, <1>6, <1>7 DEF ListedIffAvailable
<1>9. LeftBehind'
  <2>1. \A s \in orphaned' : class[s] # "none" /\ free[s] # {}
    BY <1>1, <1>4 DEF LeftBehind
  <2>2. ASSUME NEW s \in Slabs, class[s] # "none", owner[s[1]] \in Range(pooled')
        PROVE  free[s] = {} \/ s \in orphaned'
    <3>1. CASE owner[s[1]] = remote_alloc[t]
      <4>1. class[s] \in Classes
        BY <2>2 DEF TypeOK
      <4>2. s \in Range(lists[t][class[s]]) <=> free[s] # {} /\ s \notin orphaned
        BY <1>1, <2>2, <3>1 DEF ListedIffAvailable
      <4> QED BY <1>1, <1>3, <4>1, <4>2
    <3>2. CASE owner[s[1]] \in Range(pooled)
      BY <1>1, <2>2, <3>2 DEF LeftBehind
    <3> QED BY <1>2, <2>2, <3>1, <3>2
  <2> QED BY <1>1, <2>1, <2>2 DEF LeftBehind
<1> QED BY <1>8, <1>9

(* So every move keeps the lists in agreement with the free objects.       *)
LEMMA ListsStep ==
  ASSUME TypeOK, TypeOK', IdsApart, SlabsOwned, ListedIffAvailable, LeftBehind, QueuedForOwner,
         PlacedByKind, NEW t \in Threads, Move(t)
  PROVE  ListedIffAvailable' /\ LeftBehind'
<1>1. CASE UNCHANGED <<remote_alloc, pooled, orphaned, owner, class, used, lists, headquarter, free>>
  <2>1. \A u \in Threads : pc'[u] = "off" <=> pc[u] = "off"
    BY <1>1 DEF TypeOK
  <2> QED BY <1>1, <2>1 DEF ListedIffAvailable, LeftBehind
<1>2. ASSUME NEW id \in Ids, NEW msg \in Messages, TakesOwn(t, id, msg)
      PROVE  ListedIffAvailable' /\ LeftBehind'
  <2>1. Takes(t, id, msg) /\ msg[2] = id /\ LocalDealloc(t, msg[1])
    BY <1>2 DEF TakesOwn
  <2>2. msg[1] \in Objects /\ class[SlabOf(msg[1])] # "none" /\ 1 \in DOMAIN queue[id]
    BY <2>1, TypeTakes
  <2>3. /\ pc[t] = "handle" /\ id = remote_alloc[t] /\ msg = queue[id][1]
        /\ UNCHANGED <<remote_alloc, pooled, orphaned>>
    BY <2>1 DEF Takes
  <2>4. owner[msg[1][1]] = remote_alloc[t]
    <3>1. msg \in Range(queue[id])
      BY <2>2, <2>3 DEF Range
    <3> QED BY <2>1, <2>3, <3>1 DEF QueuedForOwner
  <2> QED BY <2>1, <2>2, <2>3, <2>4, ListsLocalDealloc
<1>3. ASSUME NEW obj \in Objects, FreesOwn(t, obj)
      PROVE  ListedIffAvailable' /\ LeftBehind'
  <2>1. /\ LocalDealloc(t, obj) /\ owner[obj[1]] = remote_alloc[t] /\ pc[t] = "body"
        /\ UNCHANGED <<remote_alloc, pooled, orphaned>> /\ op[t] = <<"dealloc", obj>>
    BY <1>3 DEF FreesOwn, Frees, Returns
  <2>2. class[SlabOf(obj)] # "none"
    BY <2>1, InCall
  <2> QED BY <2>1, <2>2, ListsLocalDealloc
<1>4. ASSUME NEW c \in Classes, Allocates(t, c), AllocListed(t, c)
      PROVE  ListedIffAvailable' /\ LeftBehind'
  <2>1. pc[t] = "body" /\ UNCHANGED <<remote_alloc, pooled, orphaned>>
    BY <1>4 DEF Allocates, Returns
  <2> QED BY <1>4, <2>1, ListsAllocListed
<1>5. \/ UNCHANGED <<remote_alloc, pooled, orphaned, owner, class, used, lists, headquarter, free>>
      \/ \E id \in Ids, msg \in Messages : TakesOwn(t, id, msg)
      \/ \E obj \in Objects : FreesOwn(t, obj)
      \/ \E c \in Classes : Allocates(t, c) /\ AllocListed(t, c)
      \/ Makes(t) \/ Start(t) \/ Release(t)
  BY DEF Move, Makes, Begins, Call, Forwards, Takes, ProcessDone, Pushes, Distributes,
         PostDone, FreesRemote, UseLarge, Returns, Exit, slabs
<1> QED BY <1>1, <1>2, <1>3, <1>4, <1>5, ListsMakes, ListsStart, ListsRelease

-----------------------------------------------------------------------------
(* The caches.  Two ids that agree in the bits below a shift have the same *)
(* slot there if and only if they also agree in the bits of the slot.      *)
LEMMA SlotDigits ==
  ASSUME NEW a \in Nat, NEW b \in Nat, NEW at \in Nat, (a - b) % 2 ^ at = 0
  PROVE  /\ at + RemoteSlotBits \in Nat
         /\ SlotAt(a, at) = SlotAt(b, at) <=> (a - b) % 2 ^ (at + RemoteSlotBits) = 0
<1> DEFINE p == 2 ^ RemoteSlotBits
           q == 2 ^ at
<1>1. /\ RemoteSlotBits \in Nat /\ p \in Nat /\ p > 0 /\ q \in Nat /\ q > 0
      /\ 2 ^ (at + RemoteSlotBits) = q * p
  <2>1. RemoteSlotBits \in Nat
    BY ThreadAllocatorConstants
  <2>2. p \in Nat \ {0} /\ q \in Nat \ {0}
    BY <2>1, Pow2Pos
  <2>3. 2 ^ (at + RemoteSlotBits) = q * p
    BY <2>1, Pow2Add
  <2> HIDE DEF p, q
  <2>4. p > 0 /\ q > 0
    BY <2>2
  <2> QED BY <2>1, <2>2, <2>3, <2>4
<1>2. /\ SlotAt(a, at) = (a \div q) % p /\ SlotAt(b, at) = (b \div q) % p
      /\ (a - b) % q = 0
  BY DEF SlotAt
<1> HIDE DEF p, q
<1>3. a % q = b % q
  BY <1>1, <1>2, DiffRem, ZenonT(40)
<1>4. /\ a % (q * p) = SlotAt(a, at) * q + (a % q) /\ SlotAt(a, at) \in Nat
      /\ b % (q * p) = SlotAt(b, at) * q + (b % q) /\ SlotAt(b, at) \in Nat
      /\ b % q \in Nat /\ b % q < q
  BY <1>1, <1>2, DigitRem
<1>5. a % (q * p) = b % (q * p) <=> SlotAt(a, at) = SlotAt(b, at)
  <2> DEFINE x == SlotAt(a, at)
             y == SlotAt(b, at)
             r == b % q
  <2>1. x \in Nat /\ y \in Nat /\ r \in Nat /\ r < q
    BY <1>4
  <2> HIDE DEF x, y, r
  <2>2. x * q + r = y * q + r <=> x = y
    BY <1>1, <2>1, QuotUnique
  <2> QED BY <1>3, <1>4, <2>2 DEF x, y, r
<1>6. (a - b) % (q * p) = 0 <=> a % (q * p) = b % (q * p)
  <2>1. q * p \in Nat /\ q * p > 0
    BY <1>1
  <2> QED BY <2>1, DiffRem
<1> QED BY <1>1, <1>5, <1>6

(* At the first level no bits are shifted out.                             *)
LEMMA NoShift ==
  ASSUME NEW a \in Nat, NEW b \in Nat
  PROVE  (a - b) % 2 ^ 0 = 0
<1>1. a % 1 = b % 1
  OBVIOUS
<1> QED BY <1>1, DiffRem, Pow2Zero

(* A message is put last into the slot of its target.                      *)
LEMMA CachedEnqueue ==
  ASSUME TypeOK, NEW t \in Threads, NEW msg \in Messages, Enqueue(t, msg)
  PROVE  \E i \in RemoteSlots :
           /\ i = SlotAt(msg[2], 0)
           /\ \A u \in Threads \ {t} : cache'[u] = cache[u]
           /\ \A j \in RemoteSlots \ {i} : cache'[t][j] = cache[t][j]
           /\ cache'[t][i] = Append(cache[t][i], msg)
<1>1. SlotAt(msg[2], 0) \in RemoteSlots
  BY TypeEnqueue
<1>2. cache' = [cache EXCEPT ![t][SlotAt(msg[2], 0)] = Append(@, msg)]
  BY DEF Enqueue
<1> QED BY <1>1, <1>2 DEF TypeOK

(* The owner of a message's object stays. *)
LEMMA OwnerStays ==
  ASSUME TypeOK, SlabsOwned, NEW t \in Threads, Move(t)
  PROVE  \A msg \in Messages : msg[2] = owner[msg[1][1]] => msg[2] = owner'[msg[1][1]]
<1>1. CASE Makes(t)
  <2>1. PICK c \in Classes, slab \in Slabs : Made(t, c, slab)
    BY <1>1, MakesSlab
  <2>2. /\ owner' = [owner EXCEPT ![slab[1]] = remote_alloc[t]]
        /\ owner[slab[1]] \in {NoId, remote_alloc[t]}
        /\ owner \in [Chunks -> Ids \cup {NoId}]
    BY <2>1 DEF Made, TypeOK
  <2>3. \A msg \in Messages : msg[1][1] \in Chunks /\ msg[2] # NoId
    BY ObjectFacts, NoIdApart DEF Messages
  <2> QED BY <2>2, <2>3
<1>2. CASE UNCHANGED owner
  BY <1>2
<1> QED BY <1>1, <1>2, SlabsFrame

(* Every move keeps cached messages for others, in the slots where a post  *)
(* looks.                                                                  *)
LEMMA CachedForOthersStep ==
  ASSUME TypeOK, TypeOK', Control, SlabsOwned, QueuedForOwner, CachedForOthers, CacheEmptied,
         PlacedByKind, NEW t \in Threads, Move(t)
  PROVE  CachedForOthers'
<1>1. \A u \in Threads, i \in RemoteSlots : \A msg \in Range(cache[u][i]) :
        /\ msg \in Messages
        /\ msg[2] = owner'[msg[1][1]]
        /\ msg[2] # remote_alloc[u]
        /\ SlotAt(msg[2], shift[u]) = i
        /\ (msg[2] - remote_alloc[u]) % 2 ^ shift[u] = 0
  <2> TAKE u \in Threads, i \in RemoteSlots
  <2>1. cache[u][i] \in Seq(Messages)
    BY DEF TypeOK
  <2>2. \A msg \in Range(cache[u][i]) : msg \in Messages
    BY <2>1 DEF Range
  <2> QED BY <2>2, OwnerStays DEF CachedForOthers
<1>2. CASE UNCHANGED <<cache, shift, remote_alloc>>
  BY <1>1, <1>2 DEF CachedForOthers
<1>3. ASSUME NEW msg \in Messages, Enqueue(t, msg), UNCHANGED <<shift, remote_alloc>>, shift[t] = 0,
             msg[2] = owner'[msg[1][1]], msg[2] # remote_alloc[t], remote_alloc[t] \in Nat
      PROVE  CachedForOthers'
  <2>1. PICK i \in RemoteSlots :
          /\ i = SlotAt(msg[2], 0)
          /\ \A u \in Threads \ {t} : cache'[u] = cache[u]
          /\ \A j \in RemoteSlots \ {i} : cache'[t][j] = cache[t][j]
          /\ cache'[t][i] = Append(cache[t][i], msg)
    BY <1>3, CachedEnqueue
  <2>2. Range(cache'[t][i]) = Range(cache[t][i]) \cup {msg}
    <3>1. cache[t][i] \in Seq(Messages)
      BY <2>1 DEF TypeOK
    <3>2. msg \in Messages
      BY <1>3
    <3>3. Range(Append(cache[t][i], msg)) = Range(cache[t][i]) \cup {msg}
      BY <3>1, <3>2, SeqAppend
    <3> QED BY <2>1, <3>3
  <2>3. (msg[2] - remote_alloc[t]) % 2 ^ 0 = 0
    <3>1. msg[2] \in Nat
      BY ThreadAllocatorConstants DEF Messages
    <3> QED BY <1>3, <3>1, NoShift
  <2>4. \A m \in Range(cache'[t][i]) :
          /\ m[2] = owner'[m[1][1]]
          /\ m[2] # remote_alloc[t]
          /\ SlotAt(m[2], shift[t]) = i
          /\ (m[2] - remote_alloc[t]) % 2 ^ shift[t] = 0
    <3>1. \A m \in Range(cache[t][i]) :
            /\ m[2] = owner'[m[1][1]]
            /\ m[2] # remote_alloc[t]
            /\ SlotAt(m[2], shift[t]) = i
            /\ (m[2] - remote_alloc[t]) % 2 ^ shift[t] = 0
      BY <1>1
    <3>2. /\ msg[2] = owner'[msg[1][1]]
          /\ msg[2] # remote_alloc[t]
          /\ SlotAt(msg[2], shift[t]) = i
          /\ (msg[2] - remote_alloc[t]) % 2 ^ shift[t] = 0
      BY <1>3, <2>1, <2>3
    <3> QED BY <2>2, <3>1, <3>2
  <2>5. ASSUME NEW u \in Threads, NEW j \in RemoteSlots, u # t \/ j # i
        PROVE  cache'[u][j] = cache[u][j]
    BY <2>1, <2>5
  <2>6. ASSUME NEW u \in Threads, NEW j \in RemoteSlots, NEW m \in Range(cache'[u][j])
        PROVE  /\ m[2] = owner'[m[1][1]]
               /\ m[2] # remote_alloc[u]
               /\ SlotAt(m[2], shift[u]) = j
               /\ (m[2] - remote_alloc[u]) % 2 ^ shift[u] = 0
    <3>1. CASE u = t /\ j = i
      BY <2>4, <3>1
    <3>2. CASE ~(u = t /\ j = i)
      <4>1. m \in Range(cache[u][j])
        BY <2>5, <3>2
      <4> QED BY <1>1, <4>1
    <3> QED BY <3>1, <3>2
  <2>7. shift' = shift /\ remote_alloc' = remote_alloc
    BY <1>3
  <2> QED BY <2>6, <2>7 DEF CachedForOthers
<1>4. ASSUME NEW id \in Ids, NEW msg \in Messages, Forwards(t, id, msg)
      PROVE  CachedForOthers'
  <2>1. /\ Enqueue(t, msg) /\ msg[2] # id /\ id = remote_alloc[t] /\ pc[t] = "handle"
        /\ UNCHANGED <<shift, remote_alloc, owner>> /\ msg = queue[id][1]
    BY <1>4 DEF Forwards, Takes, slabs
  <2>2. msg[2] = owner[msg[1][1]]
    <3>1. 1 \in DOMAIN queue[id]
      BY <1>4, TypeTakes DEF Forwards
    <3>2. msg \in Range(queue[id])
      BY <2>1, <3>1 DEF Range
    <3> QED BY <1>4, <3>2 DEF QueuedForOwner
  <2>3. shift[t] = 0 /\ remote_alloc[t] \in Nat
    BY <2>1, ThreadAllocatorConstants DEF Control
  <2> QED BY <1>3, <2>1, <2>2, <2>3
<1>5. ASSUME NEW obj \in Objects, FreesRemote(t, obj)
      PROVE  CachedForOthers'
  <2> DEFINE msg == <<obj, owner[obj[1]]>>
  <2>1. /\ Enqueue(t, msg) /\ msg[2] # remote_alloc[t] /\ pc[t] = "body"
        /\ PostTrue(t, cache_size[t] + 1, "idle")
        /\ UNCHANGED <<remote_alloc, owner>>
    BY <1>5 DEF FreesRemote, slabs
  <2>2. msg \in Messages /\ msg[2] = owner[msg[1][1]]
    BY <1>5, RemoteMessage
  <2>3. shift[t] = 0 /\ remote_alloc[t] \in Nat
    <3>1. shift[t] = 0
      BY <2>1 DEF Control
    <3>2. remote_alloc[t] \in Ids
      BY <2>1 DEF TypeOK
    <3> QED BY <3>1, <3>2, ThreadAllocatorConstants
  <2>4. UNCHANGED shift
    BY <2>1, <2>3 DEF PostTrue, Post, TypeOK
  <2> HIDE DEF msg
  <2> QED BY <1>3, <2>1, <2>2, <2>3, <2>4
<1>6. ASSUME NEW i \in RemoteSlots, NEW id \in Ids, Pushes(t, i, id)
      PROVE  CachedForOthers'
  <2>1. /\ cache' = [cache EXCEPT ![t][i] = <<>>] /\ UNCHANGED <<shift, remote_alloc>>
        /\ cache \in [Threads -> [RemoteSlots -> Seq(Messages)]]
    BY <1>6 DEF Pushes, TypeOK
  <2>2. \A u \in Threads, j \in RemoteSlots : Range(cache'[u][j]) \subseteq Range(cache[u][j])
    <3>1. Range(<<>>) = {}
      BY DEF Range
    <3> QED BY <2>1, <3>1
  <2>3. ASSUME NEW u \in Threads, NEW j \in RemoteSlots, NEW m \in Range(cache'[u][j])
        PROVE  /\ m[2] = owner'[m[1][1]]
               /\ m[2] # remote_alloc'[u]
               /\ SlotAt(m[2], shift'[u]) = j
               /\ (m[2] - remote_alloc'[u]) % 2 ^ shift'[u] = 0
    <3>1. m \in Range(cache[u][j])
      BY <2>2, <2>3
    <3>2. shift'[u] = shift[u] /\ remote_alloc'[u] = remote_alloc[u]
      BY <2>1
    <3> QED BY <1>1, <3>1, <3>2
  <2> QED BY <2>3 DEF CachedForOthers
<1>7. ASSUME NEW own \in RemoteSlots, Distributes(t, own)
      PROVE  CachedForOthers'
  <2> DEFINE l == cache[t][own]
             next == shift[t] + RemoteSlotBits
  <2>1. /\ pc[t] = "post" /\ own = SlotAt(remote_alloc[t], shift[t])
        /\ cache' = [cache EXCEPT ![t] = [i \in RemoteSlots |-> Bucket(l, next, i)]]
        /\ shift' = [shift EXCEPT ![t] = next]
        /\ UNCHANGED remote_alloc
    BY <1>7 DEF Distributes, OwnSlot
  <2>2. /\ cache \in [Threads -> [RemoteSlots -> Seq(Messages)]]
        /\ shift \in [Threads -> Nat] /\ l \in Seq(Messages)
        /\ remote_alloc[t] \in Nat
    <3>1. cache \in [Threads -> [RemoteSlots -> Seq(Messages)]] /\ shift \in [Threads -> Nat]
      BY DEF TypeOK
    <3>2. remote_alloc[t] \in Ids
      BY <2>1 DEF TypeOK
    <3> QED BY <3>1, <3>2, ThreadAllocatorConstants
  <2>3. next \in Nat
    BY <2>2, ThreadAllocatorConstants
  <2> HIDE DEF l, next
  <2>4. ASSUME NEW i \in RemoteSlots, NEW msg \in Range(Bucket(l, next, i))
        PROVE  /\ msg[2] = owner'[msg[1][1]]
               /\ msg[2] # remote_alloc[t]
               /\ SlotAt(msg[2], next) = i
               /\ (msg[2] - remote_alloc[t]) % 2 ^ next = 0
    <3>1. msg \in Range(l) /\ SlotAt(msg[2], next) = i
      BY <2>2, BucketMessages
    <3>2. /\ msg \in Messages /\ msg[2] = owner'[msg[1][1]] /\ msg[2] # remote_alloc[t]
          /\ SlotAt(msg[2], shift[t]) = own
          /\ (msg[2] - remote_alloc[t]) % 2 ^ shift[t] = 0
      BY <1>1, <3>1 DEF l
    <3>3. msg[2] \in Nat
      BY <3>2, ThreadAllocatorConstants DEF Messages
    <3>4. (msg[2] - remote_alloc[t]) % 2 ^ next = 0
      BY <2>1, <2>2, <3>2, <3>3, SlotDigits, SMTT(30) DEF next
    <3> QED BY <3>1, <3>2, <3>4
  <2>5. \A u \in Threads \ {t} : cache'[u] = cache[u] /\ shift'[u] = shift[u]
    BY <2>1, <2>2
  <2>6. shift'[t] = next /\ \A i \in RemoteSlots : cache'[t][i] = Bucket(l, next, i)
    BY <2>1, <2>2
  <2> QED BY <1>1, <2>1, <2>4, <2>5, <2>6 DEF CachedForOthers
<1>8. CASE (\A i \in RemoteSlots : cache[t][i] = <<>>)
           /\ cache' = cache
           /\ \A u \in Threads \ {t} : remote_alloc'[u] = remote_alloc[u] /\ shift'[u] = shift[u]
  <2>1. Range(<<>>) = {}
    BY DEF Range
  <2> QED BY <1>1, <1>8, <2>1 DEF CachedForOthers
<1>9. CASE PostDone(t)
  BY <1>8, <1>9 DEF PostDone, messages, TypeOK
<1>10. CASE Start(t) \/ Release(t)
  <2>1. cache[t] = NoMessages /\ cache' = cache /\ shift' = shift
    BY <1>10 DEF Start, Release, CacheEmptied, messages
  <2>2. \A u \in Threads \ {t} : remote_alloc'[u] = remote_alloc[u]
    <3>1. \E id : remote_alloc' = [remote_alloc EXCEPT ![t] = id]
      BY <1>10 DEF Start, Release
    <3>2. remote_alloc \in [Threads -> Ids \cup {NoId}]
      BY DEF TypeOK
    <3> QED BY <3>1, <3>2
  <2> QED BY <1>8, <2>1, <2>2 DEF NoMessages
<1>11. CASE ProcessDone(t) \/ Exit(t)
  <2>1. pc[t] # "post"
    BY <1>11 DEF ProcessDone, Exit
  <2>2. shift[t] = 0 /\ shift \in [Threads -> Nat]
    BY <2>1 DEF Control, TypeOK
  <2>3. UNCHANGED <<cache, shift, remote_alloc>>
    BY <1>11, <2>2 DEF ProcessDone, Exit, PostTrue, Post
  <2> QED BY <1>2, <2>3
<1>12. \/ UNCHANGED <<cache, shift, remote_alloc>>
       \/ \E id \in Ids, msg \in Messages : Forwards(t, id, msg)
       \/ \E obj \in Objects : FreesRemote(t, obj)
       \/ \E i \in RemoteSlots, id \in Ids : Pushes(t, i, id)
       \/ \E own \in RemoteSlots : Distributes(t, own)
       \/ PostDone(t) \/ Start(t) \/ Release(t) \/ ProcessDone(t) \/ Exit(t)
  BY DEF Move, Begins, Call, TakesOwn, Takes, Allocates, FreesOwn, UseLarge, Returns, messages
<1> QED BY <1>2, <1>4, <1>5, <1>6, <1>7, <1>9, <1>10, <1>11, <1>12

(* How many messages a cache holds. *)
Positions(c) == UNION {{<<i, n>> : n \in DOMAIN c[i]} : i \in RemoteSlots}

(* A cache has finitely many messages,                                     *)
LEMMA PositionsFinite ==
  ASSUME NEW c \in [RemoteSlots -> Seq(Messages)]
  PROVE  IsFiniteSet(Positions(c))
<1>1. IsFiniteSet(RemoteSlots)
  <2>1. 2 ^ RemoteSlotBits - 1 \in Int
    BY Pow2Nat, ThreadAllocatorConstants
  <2> QED BY <2>1, FS_Interval DEF RemoteSlots
<1>2. IsFiniteSet(PositionsIn(c, RemoteSlots))
  BY <1>1, FinitePositions
<1> QED BY <1>2 DEF Positions, PositionsIn

(* one more when one is appended,                                          *)
LEMMA PositionsAppend ==
  ASSUME NEW c \in [RemoteSlots -> Seq(Messages)], NEW d, NEW i \in RemoteSlots, NEW msg \in Messages,
         d[i] = Append(c[i], msg), \A j \in RemoteSlots \ {i} : d[j] = c[j]
  PROVE  Cardinality(Positions(d)) = Cardinality(Positions(c)) + 1
<1>1. c[i] \in Seq(Messages)
  OBVIOUS
<1>2. /\ DOMAIN c[i] = 1 .. Len(c[i]) /\ Len(c[i]) \in Nat
      /\ DOMAIN d[i] = 1 .. Len(c[i]) + 1
  BY <1>1, SeqAppend, LenProperties
<1>3. DOMAIN d[i] = DOMAIN c[i] \cup {Len(c[i]) + 1}
  BY <1>2
<1>4. \A p : p \in Positions(d) <=> p \in Positions(c) \/ p = <<i, Len(c[i]) + 1>>
  BY <1>3 DEF Positions
<1>5. <<i, Len(c[i]) + 1>> \notin Positions(c)
  <2>1. Len(c[i]) + 1 \notin DOMAIN c[i]
    BY <1>2
  <2> QED BY <2>1 DEF Positions
<1> DEFINE P == Positions(c)
           Q == Positions(d)
<1>6. IsFiniteSet(P)
  BY PositionsFinite
<1> HIDE DEF P, Q
<1>7. Q = P \cup {<<i, Len(c[i]) + 1>>}
  BY <1>4 DEF P, Q
<1>8. <<i, Len(c[i]) + 1>> \notin P
  BY <1>5 DEF P
<1>9. Cardinality(Q) = Cardinality(P) + 1
  BY <1>6, <1>7, <1>8, FS_AddElement
<1> QED BY <1>9 DEF P, Q

(* and none when its slots are empty.                                      *)
LEMMA PositionsEmpty ==
  ASSUME NEW c, \A i \in RemoteSlots : c[i] = <<>>
  PROVE  Cardinality(Positions(c)) = 0
<1>1. Positions(c) = {}
  BY DEF Positions
<1> QED BY <1>1, FS_EmptySet

(* A step changes the locals and the cache of the thread that takes it.    *)
LEMMA LocalsFrame ==
  ASSUME TypeOK, NEW t \in Threads, Move(t), NEW u \in Threads, u # t
  PROVE  /\ pc'[u] = pc[u] /\ cache'[u] = cache[u] /\ cache_size'[u] = cache_size[u]
         /\ op'[u] = op[u]
<1>1. /\ pc \in [Threads -> {"off", "idle", "handle", "post", "body", "release"}]
      /\ cache \in [Threads -> [RemoteSlots -> Seq(Messages)]]
      /\ cache_size \in [Threads -> Nat]
      /\ op \in [Threads -> Ops]
  BY DEF TypeOK
<1>2. (\E x : pc' = [pc EXCEPT ![t] = x]) \/ pc' = pc
  BY DEF Move, Start, Begins, Call, TakesOwn, Forwards, Takes, ProcessDone, PostTrue, Post, Pushes,
         Distributes, PostDone, Allocates, Returns, FreesOwn, FreesRemote, UseLarge, Exit, Release
<1>3. \/ \E x : cache' = [cache EXCEPT ![t] = x]
      \/ \E i, x : cache' = [cache EXCEPT ![t][i] = x]
      \/ cache' = cache
  BY DEF Move, Start, Begins, Call, TakesOwn, Forwards, Takes, ProcessDone, Pushes, Enqueue,
         Distributes, PostDone, Allocates, Returns, FreesOwn, FreesRemote, UseLarge, Exit, Release,
         messages
<1>4. (\E x : cache_size' = [cache_size EXCEPT ![t] = x]) \/ cache_size' = cache_size
  BY DEF Move, Start, Begins, Call, TakesOwn, Forwards, Takes, ProcessDone, PostTrue, Post, Pushes,
         Distributes, PostDone, Allocates, Returns, FreesOwn, FreesRemote, UseLarge, Exit, Release,
         messages
<1>5. (\E x : op' = [op EXCEPT ![t] = x]) \/ op' = op
  BY DEF Move, Start, Begins, Call, TakesOwn, Forwards, Takes, ProcessDone, Pushes,
         Distributes, PostDone, Allocates, Returns, FreesOwn, FreesRemote, UseLarge, Exit, Release
<1>6. pc'[u] = pc[u] /\ cache_size'[u] = cache_size[u] /\ op'[u] = op[u]
  BY <1>1, <1>2, <1>4, <1>5
<1>7. cache'[u] = cache[u]
  BY <1>1, <1>3
<1> QED BY <1>6, <1>7

(* Every move keeps the size of the cache what it caches.                  *)
LEMMA CacheStep ==
  ASSUME TypeOK, TypeOK', Control, SlabsOwned, CacheAccounted, CacheEmptied, PlacedByKind,
         NEW t \in Threads, Move(t)
  PROVE  CacheAccounted' /\ CacheEmptied'
<1> DEFINE Accounted(u) ==
             /\ pc[u] # "post" => cache_size[u] = Cardinality(Positions(cache[u]))
             /\ pc[u] \in {"idle", "body"} => cache_size[u] < Threshold
             /\ pc[u] \in {"release", "off"} => cache_size[u] = 0
             /\ pc[u] \in {"off", "release"} => cache[u] = NoMessages
             /\ pc[u] = "post" => cache_size[u] = 0
           Accounts ==
             /\ pc'[t] # "post" => cache_size'[t] = Cardinality(Positions(cache'[t]))
             /\ pc'[t] \in {"idle", "body"} => cache_size'[t] < Threshold
             /\ pc'[t] \in {"release", "off"} => cache_size'[t] = 0
             /\ pc'[t] \in {"off", "release"} => cache'[t] = NoMessages
             /\ pc'[t] = "post" => cache_size'[t] = 0
<1>1. \A u \in Threads : Accounted(u)
  BY DEF CacheAccounted, CacheEmptied, Positions
<1>2. /\ cache_size[t] \in Nat /\ Threshold \in Nat /\ Threshold > 0
      /\ cache[t] \in [RemoteSlots -> Seq(Messages)]
      /\ pc \in [Threads -> {"off", "idle", "handle", "post", "body", "release"}]
      /\ cache_size \in [Threads -> Nat]
  BY ThreadAllocatorConstants DEF TypeOK
<1>3. Accounted(t)
  BY <1>1
<1>4. ASSUME Start(t)
      PROVE  Accounts
  <2>1. pc[t] = "off" /\ pc'[t] = "idle" /\ cache' = cache /\ cache_size' = cache_size
    BY <1>2, <1>4 DEF Start, messages
  <2> QED BY <1>2, <1>3, <2>1
<1>5. ASSUME pc[t] \in {"idle", "handle"}, pc'[t] = "handle", cache'[t] = cache[t],
             cache_size'[t] = cache_size[t]
      PROVE  Accounts
  BY <1>3, <1>5
<1>6. ASSUME \E o \in Ops : Begins(t, o)
      PROVE  Accounts
  <2>1. pc[t] = "idle" /\ pc'[t] = "handle" /\ cache' = cache /\ cache_size' = cache_size
    BY <1>2, <1>6 DEF Begins, Call, messages
  <2> QED BY <1>5, <2>1
<1>7. ASSUME \E id \in Ids, msg \in Messages : TakesOwn(t, id, msg)
      PROVE  Accounts
  <2>1. pc[t] = "handle" /\ pc' = pc /\ cache' = cache /\ cache_size' = cache_size
    BY <1>7 DEF TakesOwn, Takes
  <2> QED BY <1>5, <2>1
<1>8. ASSUME NEW msg \in Messages, Enqueue(t, msg), pc[t] # "post"
      PROVE  cache_size[t] + 1 = Cardinality(Positions(cache'[t]))
  <2>1. PICK i \in RemoteSlots :
          /\ i = SlotAt(msg[2], 0)
          /\ \A u \in Threads \ {t} : cache'[u] = cache[u]
          /\ \A j \in RemoteSlots \ {i} : cache'[t][j] = cache[t][j]
          /\ cache'[t][i] = Append(cache[t][i], msg)
    BY <1>8, CachedEnqueue
  <2>2. Cardinality(Positions(cache'[t])) = Cardinality(Positions(cache[t])) + 1
    <3> DEFINE c == cache[t]
               d == cache'[t]
    <3>1. /\ c \in [RemoteSlots -> Seq(Messages)]
          /\ d[i] = Append(c[i], msg) /\ \A j \in RemoteSlots \ {i} : d[j] = c[j]
      BY <1>2, <2>1
    <3> HIDE DEF c, d
    <3>2. Cardinality(Positions(d)) = Cardinality(Positions(c)) + 1
      BY <3>1, PositionsAppend
    <3> QED BY <3>2 DEF c, d
  <2> QED BY <1>3, <1>8, <2>2
<1>9. ASSUME NEW id \in Ids, NEW msg \in Messages, Forwards(t, id, msg)
      PROVE  Accounts
  <2>1. pc[t] = "handle" /\ pc' = pc /\ Enqueue(t, msg) /\ cache_size'[t] = cache_size[t] + 1
    BY <1>2, <1>9 DEF Forwards, Takes
  <2>2. cache_size'[t] = Cardinality(Positions(cache'[t]))
    BY <1>8, <2>1
  <2> QED BY <2>1, <2>2
<1>10. ASSUME NEW size \in Nat, NEW next \in {"idle", "body"}, PostTrue(t, size, next),
              size = Cardinality(Positions(cache'[t]))
       PROVE  Accounts
  <2>1. \/ pc'[t] = "post" /\ cache_size'[t] = 0
        \/ pc'[t] = next /\ cache_size'[t] = size /\ size < Threshold
    BY <1>2, <1>10 DEF PostTrue, Post
  <2> QED BY <1>10, <2>1
<1>11. ASSUME ProcessDone(t)
       PROVE  Accounts
  <2>1. pc[t] = "handle" /\ PostTrue(t, cache_size[t], "body") /\ cache' = cache
    BY <1>11 DEF ProcessDone
  <2> QED BY <1>2, <1>3, <1>10, <2>1
<1>12. ASSUME pc[t] = "post", pc'[t] = "post", cache_size'[t] = cache_size[t]
       PROVE  Accounts
  BY <1>3, <1>12
<1>13. ASSUME \E i \in RemoteSlots, id \in Ids : Pushes(t, i, id)
       PROVE  Accounts
  <2>1. pc[t] = "post" /\ pc' = pc /\ cache_size' = cache_size
    BY <1>13 DEF Pushes
  <2> QED BY <1>12, <2>1
<1>14. ASSUME \E own \in RemoteSlots : Distributes(t, own)
       PROVE  Accounts
  <2>1. pc[t] = "post" /\ pc' = pc /\ cache_size' = cache_size
    BY <1>14 DEF Distributes
  <2> QED BY <1>12, <2>1
<1>15. ASSUME PostDone(t)
       PROVE  Accounts
  <2>1. /\ pc[t] = "post" /\ (\A i \in RemoteSlots : cache[t][i] = <<>>)
        /\ cache' = cache /\ cache_size' = cache_size /\ pc' = [pc EXCEPT ![t] = then[t]]
    BY <1>15 DEF PostDone, messages
  <2>2. pc'[t] = then[t] /\ then[t] \in {"idle", "body", "release"}
    BY <1>2, <2>1 DEF TypeOK
  <2>3. cache[t] = NoMessages
    BY <1>2, <2>1 DEF NoMessages
  <2>4. cache_size[t] = 0 /\ Cardinality(Positions(cache[t])) = 0
    BY <1>3, <2>1, PositionsEmpty
  <2> QED BY <1>2, <2>1, <2>2, <2>3, <2>4
<1>16. ASSUME Returns(t)
       PROVE  Accounts
  <2>1. pc[t] = "body" /\ pc'[t] = "idle" /\ cache' = cache /\ cache_size' = cache_size
    BY <1>2, <1>16 DEF Returns, messages
  <2> QED BY <1>3, <2>1
<1>17. ASSUME NEW obj \in Objects, FreesRemote(t, obj)
       PROVE  Accounts
  <2>1. /\ pc[t] = "body" /\ Enqueue(t, <<obj, owner[obj[1]]>>)
        /\ PostTrue(t, cache_size[t] + 1, "idle")
    BY <1>17 DEF FreesRemote
  <2>2. <<obj, owner[obj[1]]>> \in Messages
    BY <1>17, RemoteMessage
  <2>3. cache_size[t] + 1 = Cardinality(Positions(cache'[t])) /\ cache_size[t] + 1 \in Nat
    BY <1>2, <1>8, <2>1, <2>2
  <2> QED BY <1>10, <2>1, <2>3
<1>18. ASSUME Exit(t)
       PROVE  Accounts
  <2>1. pc'[t] = "post" /\ cache_size'[t] = 0
    BY <1>2, <1>18 DEF Exit, Post
  <2> QED BY <2>1
<1>19. ASSUME Release(t)
       PROVE  Accounts
  <2>1. pc[t] = "release" /\ pc'[t] = "off" /\ cache' = cache /\ cache_size' = cache_size
    BY <1>2, <1>19 DEF Release, messages
  <2> QED BY <1>3, <2>1
<1>20. Accounts
  <2> HIDE DEF Accounts
  <2>1. \/ Returns(t)
        \/ Start(t)
        \/ \E o \in Ops : Begins(t, o)
        \/ \E id \in Ids, msg \in Messages : TakesOwn(t, id, msg)
        \/ \E id \in Ids, msg \in Messages : Forwards(t, id, msg)
        \/ ProcessDone(t)
        \/ \E i \in RemoteSlots, id \in Ids : Pushes(t, i, id)
        \/ \E own \in RemoteSlots : Distributes(t, own)
        \/ PostDone(t)
        \/ \E obj \in Objects : FreesRemote(t, obj)
        \/ Exit(t)
        \/ Release(t)
    BY DEF Move, Allocates, FreesOwn, UseLarge
  <2> QED BY <1>4, <1>6, <1>7, <1>9, <1>11, <1>13, <1>14, <1>15, <1>16, <1>17, <1>18, <1>19, <2>1
<1>21. ASSUME NEW u \in Threads
       PROVE  /\ pc'[u] # "post" => cache_size'[u] = Cardinality(Positions(cache'[u]))
              /\ pc'[u] \in {"idle", "body"} => cache_size'[u] < Threshold
              /\ pc'[u] \in {"release", "off"} => cache_size'[u] = 0
              /\ pc'[u] \in {"off", "release"} => cache'[u] = NoMessages
              /\ pc'[u] = "post" => cache_size'[u] = 0
  <2>1. CASE u = t
    BY <1>20, <2>1
  <2>2. CASE u # t
    <3>1. pc'[u] = pc[u] /\ cache'[u] = cache[u] /\ cache_size'[u] = cache_size[u]
      BY <2>2, LocalsFrame
    <3>2. Accounted(u)
      BY <1>1
    <3> QED BY <3>1, <3>2
  <2> QED BY <2>1, <2>2
<1> QED BY <1>21 DEF CacheAccounted, CacheEmptied, Positions

-----------------------------------------------------------------------------
(* The places of objects.  What each kind of step does to them:            *)
LEMMA CallsSame ==
  ASSUME NEW t \in Threads, op \in [Threads -> Ops], NEW o, op' = [op EXCEPT ![t] = o],
         NEW obj, op[t] # <<"dealloc", obj>>, o # <<"dealloc", obj>>
  PROVE  Calls(op', obj) = Calls(op, obj)
BY DEF Calls

(* ... a message is appended to a list of the cache, ... *)
LEMMA EnqueuePlaces ==
  ASSUME TypeOK, NEW t \in Threads, NEW msg \in Messages, Enqueue(t, msg)
  PROVE  \E p : \A obj :
           CachedAt(cache', obj) = IF obj = msg[1] THEN CachedAt(cache, obj) \cup {p}
                                                   ELSE CachedAt(cache, obj)
<1>1. PICK i \in RemoteSlots :
        /\ i = SlotAt(msg[2], 0)
        /\ \A u \in Threads \ {t} : cache'[u] = cache[u]
        /\ \A j \in RemoteSlots \ {i} : cache'[t][j] = cache[t][j]
        /\ cache'[t][i] = Append(cache[t][i], msg)
  BY CachedEnqueue
<1> DEFINE l == cache[t][i]
           k == Len(l) + 1
<1>2. /\ k \in Nat /\ k \notin DOMAIN l
      /\ DOMAIN cache'[t][i] = DOMAIN l \cup {k}
      /\ \A n \in DOMAIN l : cache'[t][i][n] = l[n]
      /\ cache'[t][i][k] = msg
  <2>1. l \in Seq(Messages)
    BY DEF TypeOK
  <2>2. /\ DOMAIN l = 1 .. Len(l) /\ Len(l) \in Nat
        /\ DOMAIN Append(l, msg) = 1 .. Len(l) + 1
        /\ \A n \in DOMAIN l : Append(l, msg)[n] = l[n]
        /\ Append(l, msg)[Len(l) + 1] = msg
    BY <2>1, SeqAppend, LenProperties
  <2> QED BY <1>1, <2>2
<1> HIDE DEF l, k
<1>3. ASSUME NEW obj, NEW u \in Threads, NEW j \in RemoteSlots, NEW n \in Nat
      PROVE  n \in DOMAIN cache'[u][j] /\ cache'[u][j][n][1] = obj
               <=> \/ n \in DOMAIN cache[u][j] /\ cache[u][j][n][1] = obj
                   \/ u = t /\ j = i /\ n = k /\ obj = msg[1]
  <2>1. CASE u = t /\ j = i
    BY <1>2, <2>1 DEF l
  <2>2. CASE ~(u = t /\ j = i)
    <3>1. cache'[u][j] = cache[u][j]
      BY <1>1, <2>2
    <3> QED BY <2>2, <3>1
  <2> QED BY <2>1, <2>2
<1>4. ASSUME NEW obj
      PROVE  CachedAt(cache', obj) = IF obj = msg[1] THEN CachedAt(cache, obj) \cup {<<t, i, k>>}
                                                     ELSE CachedAt(cache, obj)
  <2>1. ASSUME NEW p \in Threads \X RemoteSlots \X Nat
        PROVE  p \in CachedAt(cache', obj)
                 <=> p \in CachedAt(cache, obj) \/ (p = <<t, i, k>> /\ obj = msg[1])
    <3>1. p = <<p[1], p[2], p[3]>> /\ p[1] \in Threads /\ p[2] \in RemoteSlots /\ p[3] \in Nat
      OBVIOUS
    <3>2. p = <<t, i, k>> <=> p[1] = t /\ p[2] = i /\ p[3] = k
      BY <3>1
    <3> QED BY <1>3, <3>1, <3>2, SMTT(30) DEF CachedAt
  <2>2. <<t, i, k>> \in Threads \X RemoteSlots \X Nat
    BY <1>2
  <2>3. /\ CachedAt(cache', obj) \subseteq Threads \X RemoteSlots \X Nat
        /\ CachedAt(cache, obj) \subseteq Threads \X RemoteSlots \X Nat
    BY DEF CachedAt
  <2> QED BY <2>1, <2>2, <2>3
<1> QED BY <1>4

(* ... the first message of a queue is taken, ... *)
LEMMA TailPlaces ==
  ASSUME TypeOK, NEW id \in Ids, queue[id] # <<>>, queue' = [queue EXCEPT ![id] = Tail(@)], NEW obj
  PROVE  /\ QueuedAt(queue, obj) = {} => QueuedAt(queue', obj) = {}
         /\ QueuedAt(queue, obj) = {<<id, 1>>} => QueuedAt(queue', obj) = {}
         /\ \A p : QueuedAt(queue, obj) = {p} /\ queue[id][1][1] # obj
                     => \E q : QueuedAt(queue', obj) = {q}
<1>1. queue[id] \in Seq(Messages) /\ queue \in [Ids -> Seq(Messages)]
  BY DEF TypeOK
<1>2. /\ DOMAIN queue[id] = 1 .. Len(queue[id]) /\ Len(queue[id]) \in Nat
      /\ DOMAIN queue'[id] = 1 .. Len(queue[id]) - 1
      /\ \A n \in DOMAIN queue'[id] : queue'[id][n] = queue[id][n + 1]
      /\ \A j \in Ids \ {id} : queue'[j] = queue[j]
  BY <1>1, SeqTail
<1>3. ASSUME NEW j \in Ids, NEW n \in Nat
      PROVE  <<j, n>> \in QueuedAt(queue', obj)
               <=> \/ j # id /\ <<j, n>> \in QueuedAt(queue, obj)
                   \/ j = id /\ n # 0 /\ <<id, n + 1>> \in QueuedAt(queue, obj)
  <2>1. CASE j = id
    <3>1. n \in DOMAIN queue'[id] <=> n # 0 /\ n + 1 \in DOMAIN queue[id]
      BY <1>2
    <3> QED BY <1>2, <2>1, <3>1 DEF QueuedAt
  <2>2. CASE j # id
    BY <1>2, <2>2 DEF QueuedAt
  <2> QED BY <2>1, <2>2
<1>4. /\ \A p \in QueuedAt(queue', obj) : p[1] \in Ids /\ p[2] \in Nat /\ p = <<p[1], p[2]>>
      /\ \A p \in QueuedAt(queue, obj) : p[1] \in Ids /\ p[2] \in Nat /\ p = <<p[1], p[2]>>
  BY DEF QueuedAt
<1> DEFINE Q == QueuedAt(queue, obj)
           R == QueuedAt(queue', obj)
<1>5. \A p : p = <<id, 0>> => p \notin Q
  <2>1. 0 \notin DOMAIN queue[id]
    BY <1>2
  <2> QED BY <2>1 DEF QueuedAt
<1>6. <<id, 1>> \in Q => queue[id][1][1] = obj
  BY DEF QueuedAt
<1> HIDE DEF Q, R
<1>7. Q = {} => R = {}
  BY <1>3, <1>4 DEF Q, R
<1>8. ASSUME Q = {<<id, 1>>} PROVE R = {}
  <2> SUFFICES ASSUME NEW r \in R PROVE FALSE
    OBVIOUS
  <2>1. r[1] \in Ids /\ r[2] \in Nat /\ r = <<r[1], r[2]>>
    BY <1>4 DEF R
  <2>2. \/ r[1] # id /\ <<r[1], r[2]>> \in Q
        \/ r[1] = id /\ r[2] # 0 /\ <<id, r[2] + 1>> \in Q
    BY <1>3, <2>1 DEF Q, R
  <2>3. CASE r[1] # id /\ <<r[1], r[2]>> \in Q
    BY <1>8, <2>3
  <2>4. CASE r[1] = id /\ r[2] # 0 /\ <<id, r[2] + 1>> \in Q
    <3>1. r[2] + 1 = 1
      BY <1>8, <2>4
    <3> QED BY <2>1, <2>4, <3>1
  <2> QED BY <2>2, <2>3, <2>4
<1>9. ASSUME NEW p, Q = {p}, queue[id][1][1] # obj
      PROVE  \E q : R = {q}
  <2>1. p[1] \in Ids /\ p[2] \in Nat /\ p = <<p[1], p[2]>> /\ p \in Q
    BY <1>4, <1>9 DEF Q
  <2>2. CASE p[1] # id
    <3>1. ASSUME NEW r \in R PROVE r = p
      <4>1. r[1] \in Ids /\ r[2] \in Nat /\ r = <<r[1], r[2]>>
        BY <1>4 DEF R
      <4>2. \/ r[1] # id /\ <<r[1], r[2]>> \in Q
            \/ r[1] = id /\ r[2] # 0 /\ <<id, r[2] + 1>> \in Q
        BY <1>3, <4>1 DEF Q, R
      <4>3. <<id, r[2] + 1>> # p
        BY <2>1, <2>2
      <4> QED BY <1>9, <4>1, <4>2, <4>3
    <3>2. p \in R
      BY <1>3, <2>1, <2>2 DEF Q, R
    <3>3. R = {p}
      BY <3>1, <3>2
    <3> QED BY <3>3
  <2>3. CASE p[1] = id
    <3> DEFINE q == <<id, p[2] - 1>>
    <3>1. p[2] # 0 /\ p[2] # 1
      BY <1>5, <1>6, <1>9, <2>1, <2>3
    <3>2. p[2] - 1 \in Nat /\ p[2] - 1 # 0 /\ p[2] - 1 + 1 = p[2]
      BY <2>1, <3>1
    <3>3. q \in R
      BY <1>3, <2>1, <2>3, <3>2 DEF Q, R
    <3>4. ASSUME NEW r \in R PROVE r = q
      <4>1. r[1] \in Ids /\ r[2] \in Nat /\ r = <<r[1], r[2]>>
        BY <1>4 DEF R
      <4>2. \/ r[1] # id /\ <<r[1], r[2]>> \in Q
            \/ r[1] = id /\ r[2] # 0 /\ <<id, r[2] + 1>> \in Q
        BY <1>3, <4>1 DEF Q, R
      <4>3. r[1] = id /\ <<id, r[2] + 1>> = p
        BY <1>9, <2>1, <2>3, <4>2
      <4>4. r[2] + 1 = p[2]
        BY <4>3
      <4>5. r[2] = p[2] - 1
        BY <2>1, <4>1, <4>4
      <4> QED BY <4>1, <4>3, <4>5
    <3> HIDE DEF q
    <3>5. R = {q}
      BY <3>3, <3>4
    <3> QED BY <3>5
  <2> QED BY <2>2, <2>3
<1> QED BY <1>7, <1>8, <1>9 DEF Q, R

(* ... a list of the cache is pushed to a queue, ... *)
LEMMA PushPlaces ==
  ASSUME TypeOK, NEW t \in Threads, NEW i \in RemoteSlots, NEW id \in Ids, Pushes(t, i, id), NEW obj
  PROVE  /\ CachedAt(cache, obj) = {} => CachedAt(cache', obj) = {} /\ QueuedAt(queue', obj) = QueuedAt(queue, obj)
         /\ \A p : CachedAt(cache, obj) = {p} /\ QueuedAt(queue, obj) = {} =>
              \/ CachedAt(cache', obj) = {p} /\ QueuedAt(queue', obj) = {}
              \/ CachedAt(cache', obj) = {} /\ \E q : QueuedAt(queue', obj) = {q}
<1> DEFINE l == cache[t][i]
           k == Len(queue[id])
           C == CachedAt(cache, obj)
           D == CachedAt(cache', obj)
           Q == QueuedAt(queue, obj)
           R == QueuedAt(queue', obj)
<1>1. /\ queue[id] \in Seq(Messages) /\ l \in Seq(Messages)
      /\ queue \in [Ids -> Seq(Messages)] /\ cache \in [Threads -> [RemoteSlots -> Seq(Messages)]]
  BY DEF TypeOK
<1>2. /\ cache' = [cache EXCEPT ![t][i] = <<>>]
      /\ queue' = [queue EXCEPT ![id] = @ \o l]
  BY DEF Pushes
<1>3. /\ k \in Nat /\ DOMAIN queue[id] = 1 .. k /\ DOMAIN l = 1 .. Len(l) /\ Len(l) \in Nat
      /\ DOMAIN queue'[id] = 1 .. k + Len(l)
      /\ \A n \in DOMAIN queue[id] : queue'[id][n] = queue[id][n]
      /\ \A n \in DOMAIN l : queue'[id][k + n] = l[n]
      /\ \A j \in Ids \ {id} : queue'[j] = queue[j]
  <2>1. queue'[id] = queue[id] \o l /\ \A j \in Ids \ {id} : queue'[j] = queue[j]
    BY <1>1, <1>2
  <2> HIDE DEF l
  <2> QED BY <1>1, <2>1, SeqConcat, LenProperties
<1>4. ASSUME NEW u \in Threads, NEW j \in RemoteSlots, NEW n \in Nat
      PROVE  <<u, j, n>> \in D <=> <<u, j, n>> \in C /\ ~(u = t /\ j = i)
  <2>1. CASE u = t /\ j = i
    <3>1. cache'[u][j] = <<>>
      BY <1>1, <1>2, <2>1
    <3> QED BY <2>1, <3>1 DEF CachedAt
  <2>2. CASE ~(u = t /\ j = i)
    <3>1. cache'[u][j] = cache[u][j]
      BY <1>1, <1>2, <2>2
    <3> QED BY <2>2, <3>1 DEF CachedAt
  <2> QED BY <2>1, <2>2
<1>5. ASSUME NEW j \in Ids, NEW n \in Nat
      PROVE  <<j, n>> \in R <=> \/ <<j, n>> \in Q
                                \/ j = id /\ n > k /\ n - k \in Nat /\ <<t, i, n - k>> \in C
  <2> HIDE DEF l, k
  <2>1. CASE j # id
    BY <1>3, <2>1 DEF QueuedAt
  <2>2. CASE j = id /\ n <= k
    <3>1. n \in DOMAIN queue'[id] <=> n \in DOMAIN queue[id]
      BY <1>3, <2>2
    <3>2. ~(n > k)
      BY <1>3, <2>2
    <3> QED BY <1>3, <2>2, <3>1, <3>2 DEF QueuedAt
  <2>3. CASE j = id /\ n > k
    <3>1. /\ n - k \in Nat /\ k + (n - k) = n /\ n \notin DOMAIN queue[id]
          /\ n \in DOMAIN queue'[id] <=> n - k \in DOMAIN l
      BY <1>3, <2>3
    <3>2. n - k \in DOMAIN l => queue'[id][n] = l[n - k]
      BY <1>3, <3>1
    <3>3. <<j, n>> \in R <=> n - k \in DOMAIN l /\ l[n - k][1] = obj
      BY <2>3, <3>1, <3>2 DEF QueuedAt
    <3>4. <<t, i, n - k>> \in C <=> n - k \in DOMAIN l /\ l[n - k][1] = obj
      BY <3>1 DEF CachedAt, l
    <3>5. <<j, n>> \notin Q
      BY <2>3, <3>1 DEF QueuedAt
    <3> QED BY <2>3, <3>1, <3>3, <3>4, <3>5
  <2> QED BY <1>3, <2>1, <2>2, <2>3
<1>6. /\ \A p \in C \cup D : p[1] \in Threads /\ p[2] \in RemoteSlots /\ p[3] \in Nat /\ p = <<p[1], p[2], p[3]>>
      /\ \A p \in Q \cup R : p[1] \in Ids /\ p[2] \in Nat /\ p = <<p[1], p[2]>>
  BY DEF CachedAt, QueuedAt
<1>7. <<t, i, 0>> \notin C
  BY <1>3 DEF CachedAt
<1> HIDE DEF l, k, C, D, Q, R
<1>8. ASSUME C = {} PROVE D = {} /\ R = Q
  <2>1. D = {}
    BY <1>4, <1>6, <1>8
  <2>2. R = Q
    BY <1>5, <1>6, <1>8
  <2> QED BY <2>1, <2>2
<1>9. ASSUME NEW p, C = {p}, Q = {}
      PROVE  (D = {p} /\ R = {}) \/ (D = {} /\ \E q : R = {q})
  <2>1. p \in C /\ p[1] \in Threads /\ p[2] \in RemoteSlots /\ p[3] \in Nat /\ p = <<p[1], p[2], p[3]>>
    BY <1>6, <1>9
  <2>2. CASE p[1] = t /\ p[2] = i
    <3> DEFINE q == <<id, k + p[3]>>
    <3>0. p[3] # 0 /\ p[3] \in Nat /\ k \in Nat
      BY <1>3, <1>7, <2>1, <2>2
    <3>1. k + p[3] \in Nat /\ k + p[3] > k /\ (k + p[3]) - k = p[3]
      BY <3>0
    <3>2. q \in R
      BY <1>5, <2>1, <2>2, <3>1
    <3>3. ASSUME NEW r \in R PROVE r = q
      <4>1. r[1] \in Ids /\ r[2] \in Nat /\ r = <<r[1], r[2]>>
        BY <1>6
      <4>2. r[1] = id /\ r[2] > k /\ r[2] - k \in Nat /\ <<t, i, r[2] - k>> \in C
        BY <1>5, <1>9, <4>1
      <4>3. r[2] - k = p[3]
        BY <1>9, <2>1, <4>2
      <4>4. r[2] = k + p[3]
        BY <1>3, <2>1, <4>1, <4>3
      <4> QED BY <4>1, <4>2, <4>4
    <3>4. D = {}
      BY <1>4, <1>6, <1>9, <2>2
    <3> HIDE DEF q
    <3>5. R = {q}
      BY <3>2, <3>3
    <3> QED BY <3>4, <3>5
  <2>3. CASE ~(p[1] = t /\ p[2] = i)
    <3>1. D = {p}
      <4>1. p \in D
        BY <1>4, <2>1, <2>3
      <4>2. \A r \in D : r = p
        BY <1>4, <1>6, <1>9
      <4> QED BY <4>1, <4>2
    <3>2. \A n \in Nat : <<t, i, n>> \notin C
      BY <1>9, <2>1, <2>3
    <3>3. R = {}
      BY <1>5, <1>6, <1>9, <3>2
    <3> QED BY <3>1, <3>3
  <2> QED BY <2>2, <2>3
<1> QED BY <1>8, <1>9 DEF C, D, Q, R

(* ... and the thread's own list is distributed to the slots.              *)
LEMMA DistributePlaces ==
  ASSUME TypeOK, NEW t \in Threads, NEW own \in RemoteSlots, Distributes(t, own), NEW obj
  PROVE  /\ CachedAt(cache, obj) = {} => CachedAt(cache', obj) = {}
         /\ \A p : CachedAt(cache, obj) = {p} => \E q : CachedAt(cache', obj) = {q}
<1> DEFINE l == cache[t][own]
           at == shift[t] + RemoteSlotBits
           C == CachedAt(cache, obj)
           D == CachedAt(cache', obj)
<1>1. l \in Seq(Messages) /\ cache \in [Threads -> [RemoteSlots -> Seq(Messages)]]
  BY DEF TypeOK
<1>2. /\ cache' = [cache EXCEPT ![t] = [i \in RemoteSlots |-> Bucket(l, at, i)]]
      /\ \A i \in RemoteSlots \ {own} : cache[t][i] = <<>>
  BY DEF Distributes
<1>3. /\ \A u \in Threads \ {t} : cache'[u] = cache[u]
      /\ \A i \in RemoteSlots : cache'[t][i] = Bucket(l, at, i)
  BY <1>1, <1>2
<1>4. ASSUME NEW u \in Threads, NEW j \in RemoteSlots, NEW n \in Nat
      PROVE  /\ u # t => (<<u, j, n>> \in D <=> <<u, j, n>> \in C)
             /\ u = t => (<<u, j, n>> \in D
                            <=> n \in DOMAIN Bucket(l, at, j) /\ Bucket(l, at, j)[n][1] = obj)
             /\ u = t /\ <<u, j, n>> \in C => j = own /\ n \in DOMAIN l /\ l[n][1] = obj
  BY <1>2, <1>3 DEF CachedAt
<1>5. /\ \A p \in C \cup D : p[1] \in Threads /\ p[2] \in RemoteSlots /\ p[3] \in Nat /\ p = <<p[1], p[2], p[3]>>
  BY DEF CachedAt
<1>6. \A n \in DOMAIN l : n \in Nat /\ (l[n][1] = obj => <<t, own, n>> \in C)
  <2>1. DOMAIN l \subseteq Nat
    BY <1>1, LenProperties
  <2> QED BY <2>1 DEF CachedAt
<1>7. ASSUME NEW j \in RemoteSlots, NEW n \in DOMAIN Bucket(l, at, j)
      PROVE  \E m \in DOMAIN l : l[m] = Bucket(l, at, j)[n]
  <2>1. Bucket(l, at, j)[n] \in Range(Bucket(l, at, j))
    BY DEF Range
  <2>2. Bucket(l, at, j)[n] \in Range(l)
    BY <1>1, <2>1, BucketMessages
  <2> QED BY <2>2 DEF Range
<1>8. \A m \in DOMAIN l : l[m][2] \in Nat
  <2> TAKE m \in DOMAIN l
  <2>1. l[m] \in Messages
    BY <1>1, ElementOfSeq, LenProperties
  <2> QED BY <2>1, ThreadAllocatorConstants DEF Messages
<1>9. at \in Nat
  BY ThreadAllocatorConstants DEF TypeOK
<1> HIDE DEF l, at, C, D
<1>10. ASSUME C \cap {<<t, own, n>> : n \in Nat} = {}
       PROVE  D = C
  <2>1. ASSUME NEW j \in RemoteSlots, NEW n \in Nat PROVE <<t, j, n>> \notin D /\ <<t, j, n>> \notin C
    <3>1. <<t, j, n>> \notin D
      <4> SUFFICES ASSUME <<t, j, n>> \in D PROVE FALSE
        OBVIOUS
      <4>1. n \in DOMAIN Bucket(l, at, j) /\ Bucket(l, at, j)[n][1] = obj
        BY <1>4
      <4>2. PICK m \in DOMAIN l : l[m] = Bucket(l, at, j)[n]
        BY <1>7, <4>1
      <4> QED BY <1>6, <1>10, <4>1, <4>2
    <3>2. <<t, j, n>> \notin C
      BY <1>4, <1>10
    <3> QED BY <3>1, <3>2
  <2>2. ASSUME NEW p \in C \cup D PROVE p \in C /\ p \in D
    <3>1. p[1] \in Threads /\ p[2] \in RemoteSlots /\ p[3] \in Nat /\ p = <<p[1], p[2], p[3]>>
      BY <1>5
    <3>2. p[1] # t
      BY <2>1, <3>1
    <3>3. <<p[1], p[2], p[3]>> \in D <=> <<p[1], p[2], p[3]>> \in C
      BY <1>4, <3>1, <3>2
    <3> QED BY <3>1, <3>3
  <2> QED BY <2>2
<1>11. ASSUME NEW k \in Nat, C = {<<t, own, k>>}
       PROVE  \E q : D = {q}
  <2>1. k \in DOMAIN l /\ l[k][1] = obj
    BY <1>4, <1>11
  <2>2. \A n \in DOMAIN l : l[n][1] = obj => n = k
    BY <1>6, <1>11
  <2>20. OnlyAt(l, obj, k)
    BY <2>1, <2>2 DEF OnlyAt
  <2>10. PICK m \in Nat : OnlyIn(l, at, obj, SlotAt(l[k][2], at), m)
    BY <1>1, <2>20, BucketPlace
  <2>3. \A i, n : n \in DOMAIN Bucket(l, at, i) /\ Bucket(l, at, i)[n][1] = obj
                   <=> i = SlotAt(l[k][2], at) /\ n = m
    BY <2>10 DEF OnlyIn
  <2>4. SlotAt(l[k][2], at) \in RemoteSlots
    BY <1>8, <1>9, <2>1, SlotAtInSlots
  <2> DEFINE here == SlotAt(l[k][2], at)
  <2> HIDE DEF here
  <2>5. <<t, here, m>> \in D
    BY <1>4, <2>3, <2>4 DEF here
  <2>6. ASSUME NEW p \in D PROVE p = <<t, here, m>>
    <3>1. p[1] \in Threads /\ p[2] \in RemoteSlots /\ p[3] \in Nat /\ p = <<p[1], p[2], p[3]>>
      BY <1>5
    <3>2. p[1] = t
      <4> SUFFICES ASSUME p[1] # t PROVE FALSE
        OBVIOUS
      <4>1. p \in C
        BY <1>4, <3>1
      <4> QED BY <1>11, <4>1
    <3>3. p[3] \in DOMAIN Bucket(l, at, p[2]) /\ Bucket(l, at, p[2])[p[3]][1] = obj
      BY <1>4, <3>1, <3>2
    <3>4. p[2] = here /\ p[3] = m
      BY <2>3, <3>3 DEF here
    <3> QED BY <3>1, <3>2, <3>4
  <2>7. D = {<<t, here, m>>}
    BY <2>5, <2>6
  <2> QED BY <2>7
<1>12. C = {} => D = {}
  BY <1>10
<1>13. ASSUME NEW p, C = {p} PROVE \E q : D = {q}
  <2>1. p[1] \in Threads /\ p[2] \in RemoteSlots /\ p[3] \in Nat /\ p = <<p[1], p[2], p[3]>> /\ p \in C
    BY <1>5, <1>13
  <2>2. CASE p[1] = t
    <3>1. p[2] = own
      BY <1>4, <2>1, <2>2
    <3> QED BY <1>11, <1>13, <2>1, <2>2, <3>1
  <2>3. CASE p[1] # t
    <3>1. C \cap {<<t, own, n>> : n \in Nat} = {}
      BY <1>13, <2>1, <2>3
    <3> QED BY <1>10, <1>13, <3>1
  <2> QED BY <2>2, <2>3
<1> QED BY <1>12, <1>13 DEF C, D

(* A step keeps an object where it is, or moves it to one other place.     *)
LEMMA Stays ==
  ASSUME NEW obj \in Objects, PlacedByKind,
         class'[SlabOf(obj)] = "none" <=> class[SlabOf(obj)] = "none",
         obj \in live' <=> obj \in live,
         obj \in free'[SlabOf(obj)] <=> obj \in free[SlabOf(obj)],
         Calls(op', obj) = Calls(op, obj),
         CachedAt(cache', obj) = CachedAt(cache, obj),
         QueuedAt(queue', obj) = QueuedAt(queue, obj)
  PROVE  IF class'[SlabOf(obj)] = "none" THEN Nowhere(op', cache', queue', free', live', obj)
                                         ELSE Somewhere(op', cache', queue', free', live', obj)
<1>1. IF class[SlabOf(obj)] = "none" THEN Nowhere(op, cache, queue, free, live, obj)
                                     ELSE Somewhere(op, cache, queue, free, live, obj)
  BY DEF PlacedByKind
<1> QED BY <1>1 DEF Nowhere, Somewhere

(* Every object stays in one place when a call begins,                     *)
LEMMA PlacedBegins ==
  ASSUME TypeOK, Control, PlacedByKind, NEW t \in Threads, NEW o \in Ops, Begins(t, o), NEW obj \in Objects
  PROVE  IF class'[SlabOf(obj)] = "none" THEN Nowhere(op', cache', queue', free', live', obj)
                                         ELSE Somewhere(op', cache', queue', free', live', obj)
<1>1. /\ pc[t] = "idle" /\ op' = [op EXCEPT ![t] = o]
      /\ live' = IF o[1] = "dealloc" THEN live \ {o[2]} ELSE live
      /\ UNCHANGED <<cache, queue, free, class>>
  BY DEF Begins, Call, messages, slabs
<1>2. op[t] = <<>> /\ op \in [Threads -> Ops]
  BY <1>1 DEF Control, TypeOK
<1>3. \A x : <<>> # <<"dealloc", x>>
  OBVIOUS
<1>4. CASE obj \in live /\ o = <<"dealloc", obj>>
  <2>1. /\ obj \notin free[SlabOf(obj)] /\ class[SlabOf(obj)] # "none"
        /\ Calls(op, obj) = {} /\ CachedAt(cache, obj) = {} /\ QueuedAt(queue, obj) = {}
    BY <1>4, InHands
  <2>2. Calls(op', obj) = {t}
    BY <1>1, <1>2, <1>4, <2>1 DEF Calls
  <2>3. obj \notin live'
    BY <1>1, <1>4
  <2> QED BY <1>1, <2>1, <2>2, <2>3 DEF Somewhere
<1>5. CASE ~(obj \in live /\ o = <<"dealloc", obj>>)
  <2>1. o # <<"dealloc", obj>> /\ (obj \in live' <=> obj \in live)
    <3>1. CASE \E c \in Classes : o = <<"alloc", c>>
      <4>1. o[1] = "alloc"
        BY <3>1
      <4> QED BY <1>1, <3>1, <4>1
    <3>2. CASE \E x \in live : o = <<"dealloc", x>>
      <4>1. PICK x \in live : o = <<"dealloc", x>>
        BY <3>2
      <4>2. x # obj /\ o[1] = "dealloc" /\ o[2] = x
        BY <1>5, <4>1
      <4> QED BY <1>1, <4>1, <4>2
    <3>3. CASE o = <<"large">>
      <4>1. o[1] = "large"
        BY <3>3
      <4> QED BY <1>1, <3>3, <4>1
    <3> QED BY <3>1, <3>2, <3>3 DEF Begins
  <2>2. Calls(op', obj) = Calls(op, obj)
    BY <1>1, <1>2, <1>3, <2>1, CallsSame
  <2> QED BY <1>1, <2>1, <2>2, Stays
<1> QED BY <1>4, <1>5

(* The owner's slab takes the object back. *)
LEMMA FreedPlace ==
  ASSUME TypeOK, NEW t \in Threads, NEW x \in Objects, LocalDealloc(t, x), NEW obj \in Objects
  PROVE  obj \in free'[SlabOf(obj)] <=> obj \in free[SlabOf(obj)] \/ obj = x
<1>1. free' = [free EXCEPT ![SlabOf(x)] = @ \cup {x}] /\ free \in [Slabs -> SUBSET Objects]
  BY DEF LocalDealloc, TypeOK
<1>2. SlabOf(x) \in Slabs /\ SlabOf(obj) \in Slabs
  BY ObjectFacts
<1> QED BY <1>1, <1>2

(* when a message is taken from the queue,                                 *)
LEMMA PlacedTakes ==
  ASSUME TypeOK, PlacedByKind, NEW t \in Threads, NEW id \in Ids, NEW msg \in Messages,
         TakesOwn(t, id, msg) \/ Forwards(t, id, msg), NEW obj \in Objects
  PROVE  IF class'[SlabOf(obj)] = "none" THEN Nowhere(op', cache', queue', free', live', obj)
                                         ELSE Somewhere(op', cache', queue', free', live', obj)
<1>1. Takes(t, id, msg) /\ UNCHANGED <<op, live, class>>
  BY DEF TakesOwn, Forwards, Takes, LocalDealloc, slabs
<1>2. queue[id] # <<>> /\ msg = queue[id][1] /\ queue' = [queue EXCEPT ![id] = Tail(@)]
  BY <1>1 DEF Takes
<1>3. 1 \in DOMAIN queue[id] /\ msg[1] \in Objects
  BY <1>1, TypeTakes
<1>4. CASE obj = msg[1]
  <2>1. /\ class[SlabOf(obj)] # "none" /\ obj \notin live /\ obj \notin free[SlabOf(obj)]
        /\ Calls(op, obj) = {} /\ CachedAt(cache, obj) = {} /\ QueuedAt(queue, obj) = {<<id, 1>>}
    BY <1>2, <1>3, <1>4, InQueue
  <2>2. QueuedAt(queue', obj) = {}
    BY <1>2, <2>1, TailPlaces
  <2>3. CASE TakesOwn(t, id, msg)
    <3>1. LocalDealloc(t, msg[1]) /\ cache' = cache
      BY <2>3 DEF TakesOwn
    <3>2. obj \in free'[SlabOf(obj)]
      BY <1>3, <1>4, <3>1, FreedPlace
    <3> QED BY <1>1, <2>1, <2>2, <3>1, <3>2 DEF Somewhere
  <2>4. CASE Forwards(t, id, msg)
    <3>1. Enqueue(t, msg) /\ free' = free
      BY <2>4 DEF Forwards, slabs
    <3>2. PICK p : CachedAt(cache', obj) = CachedAt(cache, obj) \cup {p}
      BY <1>4, <3>1, EnqueuePlaces
    <3>3. CachedAt(cache', obj) = {p}
      BY <2>1, <3>2
    <3> QED BY <1>1, <2>1, <2>2, <3>1, <3>3 DEF Somewhere
  <2> QED BY <2>3, <2>4
<1>5. CASE obj # msg[1]
  <2>1. CachedAt(cache', obj) = CachedAt(cache, obj)
    <3>1. CASE TakesOwn(t, id, msg)
      BY <3>1 DEF TakesOwn
    <3>2. CASE Forwards(t, id, msg)
      BY <1>5, <3>2, EnqueuePlaces DEF Forwards
    <3> QED BY <3>1, <3>2
  <2>2. obj \in free'[SlabOf(obj)] <=> obj \in free[SlabOf(obj)]
    <3>1. CASE TakesOwn(t, id, msg)
      BY <1>3, <1>5, <3>1, FreedPlace DEF TakesOwn
    <3>2. CASE Forwards(t, id, msg)
      BY <3>2 DEF Forwards, slabs
    <3> QED BY <3>1, <3>2
  <2>3. /\ QueuedAt(queue, obj) = {} => QueuedAt(queue', obj) = {}
        /\ \A p : QueuedAt(queue, obj) = {p} => \E q : QueuedAt(queue', obj) = {q}
    BY <1>2, <1>5, TailPlaces
  <2>4. IF class[SlabOf(obj)] = "none" THEN Nowhere(op, cache, queue, free, live, obj)
                                       ELSE Somewhere(op, cache, queue, free, live, obj)
    BY DEF PlacedByKind
  <2> QED BY <1>1, <2>1, <2>2, <2>3, <2>4 DEF Nowhere, Somewhere
<1> QED BY <1>4, <1>5

(* when a list is pushed or distributed,                                   *)
LEMMA PlacedPosts ==
  ASSUME TypeOK, PlacedByKind, NEW t \in Threads,
         \/ \E i \in RemoteSlots, id \in Ids : Pushes(t, i, id)
         \/ \E own \in RemoteSlots : Distributes(t, own),
         NEW obj \in Objects
  PROVE  IF class'[SlabOf(obj)] = "none" THEN Nowhere(op', cache', queue', free', live', obj)
                                         ELSE Somewhere(op', cache', queue', free', live', obj)
<1>1. UNCHANGED <<op, live, class, free>>
  BY DEF Pushes, Distributes
<1>2. IF class[SlabOf(obj)] = "none" THEN Nowhere(op, cache, queue, free, live, obj)
                                     ELSE Somewhere(op, cache, queue, free, live, obj)
  BY DEF PlacedByKind
<1>3. ASSUME NEW i \in RemoteSlots, NEW id \in Ids, Pushes(t, i, id)
      PROVE  IF class'[SlabOf(obj)] = "none" THEN Nowhere(op', cache', queue', free', live', obj)
                                             ELSE Somewhere(op', cache', queue', free', live', obj)
  <2>1. /\ CachedAt(cache, obj) = {} => CachedAt(cache', obj) = {} /\ QueuedAt(queue', obj) = QueuedAt(queue, obj)
        /\ \A p : CachedAt(cache, obj) = {p} /\ QueuedAt(queue, obj) = {} =>
             \/ CachedAt(cache', obj) = {p} /\ QueuedAt(queue', obj) = {}
             \/ CachedAt(cache', obj) = {} /\ \E q : QueuedAt(queue', obj) = {q}
    BY <1>3, PushPlaces
  <2> QED BY <1>1, <1>2, <2>1 DEF Nowhere, Somewhere
<1>4. ASSUME NEW own \in RemoteSlots, Distributes(t, own)
      PROVE  IF class'[SlabOf(obj)] = "none" THEN Nowhere(op', cache', queue', free', live', obj)
                                             ELSE Somewhere(op', cache', queue', free', live', obj)
  <2>1. /\ CachedAt(cache, obj) = {} => CachedAt(cache', obj) = {}
        /\ \A p : CachedAt(cache, obj) = {p} => \E q : CachedAt(cache', obj) = {q}
    BY <1>4, DistributePlaces
  <2>2. queue' = queue
    BY <1>4 DEF Distributes
  <2> QED BY <1>1, <1>2, <2>1, <2>2 DEF Nowhere, Somewhere
<1> QED BY <1>3, <1>4

(* when it or another is freed,                                            *)
LEMMA PlacedFrees ==
  ASSUME TypeOK, SlabsOwned, PlacedByKind, NEW t \in Threads, NEW x \in Objects,
         FreesOwn(t, x) \/ FreesRemote(t, x), NEW obj \in Objects
  PROVE  IF class'[SlabOf(obj)] = "none" THEN Nowhere(op', cache', queue', free', live', obj)
                                         ELSE Somewhere(op', cache', queue', free', live', obj)
<1>1. /\ op[t] = <<"dealloc", x>> /\ op' = [op EXCEPT ![t] = <<>>] /\ op \in [Threads -> Ops]
      /\ UNCHANGED <<queue, live, class>>
  BY DEF FreesOwn, FreesRemote, Frees, LocalDealloc, Returns, messages, slabs, TypeOK
<1>2. \A y : <<>> # <<"dealloc", y>>
  OBVIOUS
<1>3. CASE obj = x
  <2>1. /\ class[SlabOf(obj)] # "none" /\ obj \notin live /\ obj \notin free[SlabOf(obj)]
        /\ CachedAt(cache, obj) = {} /\ QueuedAt(queue, obj) = {} /\ Calls(op, obj) = {t}
    BY <1>1, <1>3, InCall
  <2>2. Calls(op', obj) = {}
    BY <1>1, <1>2, <2>1 DEF Calls
  <2>3. CASE FreesOwn(t, x)
    <3>1. LocalDealloc(t, x) /\ cache' = cache
      BY <2>3 DEF FreesOwn, Returns, messages
    <3>2. obj \in free'[SlabOf(obj)]
      BY <1>3, <3>1, FreedPlace
    <3> QED BY <1>1, <2>1, <2>2, <3>1, <3>2 DEF Somewhere
  <2>4. CASE FreesRemote(t, x)
    <3>1. Enqueue(t, <<x, owner[x[1]]>>) /\ free' = free
      BY <2>4 DEF FreesRemote, slabs
    <3>2. <<x, owner[x[1]]>> \in Messages
      BY <2>4, RemoteMessage
    <3>3. PICK p : CachedAt(cache', obj) = CachedAt(cache, obj) \cup {p}
      BY <1>3, <3>1, <3>2, EnqueuePlaces
    <3>4. CachedAt(cache', obj) = {p}
      BY <2>1, <3>3
    <3> QED BY <1>1, <2>1, <2>2, <3>1, <3>4 DEF Somewhere
  <2> QED BY <2>3, <2>4
<1>4. CASE obj # x
  <2>1. CachedAt(cache', obj) = CachedAt(cache, obj)
    <3>1. CASE FreesOwn(t, x)
      BY <3>1 DEF FreesOwn, Returns, messages
    <3>2. CASE FreesRemote(t, x)
      <4>1. Enqueue(t, <<x, owner[x[1]]>>) /\ <<x, owner[x[1]]>> \in Messages
        BY <3>2, RemoteMessage DEF FreesRemote
      <4> QED BY <1>4, <4>1, EnqueuePlaces
    <3> QED BY <3>1, <3>2
  <2>2. obj \in free'[SlabOf(obj)] <=> obj \in free[SlabOf(obj)]
    <3>1. CASE FreesOwn(t, x)
      BY <1>4, <3>1, FreedPlace DEF FreesOwn
    <3>2. CASE FreesRemote(t, x)
      BY <3>2 DEF FreesRemote, slabs
    <3> QED BY <3>1, <3>2
  <2>3. Calls(op', obj) = Calls(op, obj)
    <3>1. op[t] # <<"dealloc", obj>>
      BY <1>1, <1>4
    <3> QED BY <1>1, <1>2, <3>1, CallsSame
  <2> QED BY <1>1, <2>1, <2>2, <2>3, Stays
<1> QED BY <1>3, <1>4

(* when one is allocated from a listed slab,                               *)
LEMMA PlacedAllocListed ==
  ASSUME TypeOK, PlacedByKind, NEW t \in Threads, NEW c \in Classes,
         Allocates(t, c), AllocListed(t, c), NEW obj \in Objects
  PROVE  IF class'[SlabOf(obj)] = "none" THEN Nowhere(op', cache', queue', free', live', obj)
                                         ELSE Somewhere(op', cache', queue', free', live', obj)
<1>1. /\ op[t] = <<"alloc", c>> /\ op' = [op EXCEPT ![t] = <<>>] /\ op \in [Threads -> Ops]
      /\ UNCHANGED <<cache, queue, class>>
  BY DEF Allocates, Returns, AllocListed, messages, TypeOK
<1>2. Calls(op', obj) = Calls(op, obj)
  <2>1. <<>> # <<"dealloc", obj>> /\ <<"alloc", c>> # <<"dealloc", obj>>
    OBVIOUS
  <2> QED BY <1>1, <2>1, CallsSame
<1>3. \E slab \in Slabs : \E x \in free[slab] :
        free' = [free EXCEPT ![slab] = @ \ {x}] /\ live' = live \cup {x}
  <2>1. lists[t][c] \in Seq(Slabs) /\ lists[t][c] # <<>>
    BY DEF TypeOK, AllocListed
  <2>2. Head(lists[t][c]) \in Slabs
    BY <2>1, SeqTail
  <2> QED BY <2>2 DEF AllocListed
<1>4. PICK slab \in Slabs : \E x \in free[slab] :
        free' = [free EXCEPT ![slab] = @ \ {x}] /\ live' = live \cup {x}
  BY <1>3
<1>5. PICK x \in free[slab] : free' = [free EXCEPT ![slab] = @ \ {x}] /\ live' = live \cup {x}
  BY <1>4
<1>6. /\ class[slab] # "none" /\ SlabOf(x) = slab /\ x \notin live
      /\ Calls(op, x) = {} /\ CachedAt(cache, x) = {} /\ QueuedAt(queue, x) = {}
  BY InSlab
<1>7. free \in [Slabs -> SUBSET Objects] /\ SlabOf(obj) \in Slabs
  BY ObjectFacts DEF TypeOK
<1>8. CASE obj = x
  <2>1. obj \in live' /\ obj \notin free'[SlabOf(obj)]
    BY <1>5, <1>6, <1>7, <1>8
  <2> QED BY <1>1, <1>2, <1>6, <1>8, <2>1 DEF Somewhere
<1>9. CASE obj # x
  <2>1. (obj \in live' <=> obj \in live) /\ (obj \in free'[SlabOf(obj)] <=> obj \in free[SlabOf(obj)])
    BY <1>5, <1>7, <1>9
  <2> QED BY <1>1, <1>2, <2>1, Stays
<1> QED BY <1>8, <1>9

(* and when a slab is made, whose objects get their first place.           *)
LEMMA PlacedMakes ==
  ASSUME TypeOK, SlabsOwned, PlacedByKind, NEW t \in Threads, Makes(t), NEW obj \in Objects
  PROVE  IF class'[SlabOf(obj)] = "none" THEN Nowhere(op', cache', queue', free', live', obj)
                                         ELSE Somewhere(op', cache', queue', free', live', obj)
<1>1. PICK c \in Classes, slab \in Slabs : Made(t, c, slab)
  BY MakesSlab
<1>2. /\ op[t] = <<"alloc", c>> /\ op' = [op EXCEPT ![t] = <<>>] /\ op \in [Threads -> Ops]
      /\ UNCHANGED <<cache, queue>>
  BY <1>1 DEF Made, Allocates, Returns, messages, TypeOK
<1>3. Calls(op', obj) = Calls(op, obj)
  <2>1. <<>> # <<"dealloc", obj>> /\ <<"alloc", c>> # <<"dealloc", obj>>
    OBVIOUS
  <2> QED BY <1>2, <2>1, CallsSame
<1>4. PICK x \in ObjectsOf(slab) :
        live' = live \cup {x} /\ free' = [free EXCEPT ![slab] = ObjectsOf(slab) \ {x}]
  BY <1>1 DEF Made, NewSlab
<1>5. /\ class' = [class EXCEPT ![slab] = c] /\ class[slab] = "none"
      /\ class \in [Slabs -> Classes \cup {"none"}] /\ free \in [Slabs -> SUBSET Objects]
  BY <1>1 DEF Made, NewSlab, TypeOK
<1>6. SlabOf(x) = slab /\ SlabOf(obj) \in Slabs /\ obj \in ObjectsOf(SlabOf(obj))
  BY SlabFacts, ObjectFacts
<1>7. c # "none"
  BY ThreadAllocatorConstants
<1>8. CASE SlabOf(obj) = slab
  <2>1. Nowhere(op, cache, queue, free, live, obj)
    BY <1>5, <1>8 DEF PlacedByKind
  <2>2. class'[SlabOf(obj)] # "none" /\ free'[SlabOf(obj)] = ObjectsOf(slab) \ {x}
    BY <1>4, <1>5, <1>6, <1>7, <1>8
  <2>3. (obj \in live' <=> obj = x) /\ (obj \in free'[SlabOf(obj)] <=> obj # x)
    BY <1>4, <1>6, <1>8, <2>1, <2>2 DEF Nowhere
  <2>4. Calls(op', obj) = {} /\ CachedAt(cache', obj) = {} /\ QueuedAt(queue', obj) = {}
    BY <1>2, <1>3, <2>1 DEF Nowhere
  <2> QED BY <2>2, <2>3, <2>4 DEF Somewhere
<1>9. CASE SlabOf(obj) # slab
  <2>1. obj # x /\ class'[SlabOf(obj)] = class[SlabOf(obj)] /\ free'[SlabOf(obj)] = free[SlabOf(obj)]
    BY <1>4, <1>5, <1>6, <1>9
  <2>2. obj \in live' <=> obj \in live
    BY <1>4, <2>1
  <2> QED BY <1>2, <1>3, <2>1, <2>2, Stays
<1> QED BY <1>8, <1>9

(* So every move keeps it.                                                 *)
LEMMA PlacedStep ==
  ASSUME TypeOK, Control, SlabsOwned, PlacedByKind, NEW t \in Threads, Move(t)
  PROVE  PlacedByKind'
<1> DEFINE Here(obj) == IF class'[SlabOf(obj)] = "none" THEN Nowhere(op', cache', queue', free', live', obj)
                                                        ELSE Somewhere(op', cache', queue', free', live', obj)
<1> SUFFICES ASSUME NEW obj \in Objects PROVE Here(obj)
  BY DEF PlacedByKind, Nowhere, Somewhere, SlabOf
<1>1. ASSUME UNCHANGED <<op, cache, queue, free, live, class>> PROVE Here(obj)
  BY <1>1, Stays
<1>2. ASSUME UseLarge(t) PROVE Here(obj)
  <2>1. /\ op[t] = <<"large">> /\ op' = [op EXCEPT ![t] = <<>>] /\ op \in [Threads -> Ops]
        /\ UNCHANGED <<cache, queue, free, live, class>>
    BY <1>2 DEF UseLarge, Returns, messages, slabs, TypeOK
  <2>2. <<>> # <<"dealloc", obj>> /\ <<"large">> # <<"dealloc", obj>>
    OBVIOUS
  <2>3. Calls(op', obj) = Calls(op, obj)
    BY <2>1, <2>2, CallsSame
  <2> QED BY <2>1, <2>3, Stays
<1>3. \/ UNCHANGED <<op, cache, queue, free, live, class>>
      \/ \E o \in Ops : Begins(t, o)
      \/ \E id \in Ids, msg \in Messages : TakesOwn(t, id, msg) \/ Forwards(t, id, msg)
      \/ \E i \in RemoteSlots, id \in Ids : Pushes(t, i, id)
      \/ \E own \in RemoteSlots : Distributes(t, own)
      \/ \E c \in Classes : Allocates(t, c) /\ AllocListed(t, c)
      \/ Makes(t)
      \/ \E x \in Objects : FreesOwn(t, x) \/ FreesRemote(t, x)
      \/ UseLarge(t)
  BY DEF Move, Makes, Start, ProcessDone, PostDone, Exit, Release, messages, slabs
<1> HIDE DEF Here
<1>4. ASSUME \E o \in Ops : Begins(t, o) PROVE Here(obj)
  BY <1>4, PlacedBegins DEF Here
<1>5. ASSUME \E id \in Ids, msg \in Messages : TakesOwn(t, id, msg) \/ Forwards(t, id, msg) PROVE Here(obj)
  BY <1>5, PlacedTakes DEF Here
<1>6. ASSUME \/ \E i \in RemoteSlots, id \in Ids : Pushes(t, i, id)
             \/ \E own \in RemoteSlots : Distributes(t, own)
      PROVE  Here(obj)
  BY <1>6, PlacedPosts DEF Here
<1>7. ASSUME \E c \in Classes : Allocates(t, c) /\ AllocListed(t, c) PROVE Here(obj)
  BY <1>7, PlacedAllocListed DEF Here
<1>8. ASSUME Makes(t) PROVE Here(obj)
  BY <1>8, PlacedMakes DEF Here
<1>9. ASSUME \E x \in Objects : FreesOwn(t, x) \/ FreesRemote(t, x) PROVE Here(obj)
  BY <1>9, PlacedFrees DEF Here
<1> QED BY <1>1, <1>2, <1>3, <1>4, <1>5, <1>6, <1>7, <1>8, <1>9

-----------------------------------------------------------------------------
(* The inductive invariant holds at first and is preserved.                *)
LEMMA Initially == Init => IInv
<1> SUFFICES ASSUME Init PROVE IInv
  OBVIOUS
<1>1. TypeOK
  BY TypeInit
<1>2. \A c : Range(<<>>) = {} /\ IsInjective(<<>>) /\ <<>> # <<"dealloc", c>>
  BY DEF Range, IsInjective
<1>3. Control
  BY DEF Init, Control
<1>4. IdsApart
  BY <1>2 DEF Init, IdsApart
<1>5. SlabsOwned
  <2>1. \A s \in Slabs : s[1] \in Chunks
    BY DEF Slabs
  <2> QED BY <1>2, <2>1 DEF Init, SlabsOwned
<1>6. ListedIffAvailable
  BY <1>2 DEF Init, ListedIffAvailable
<1>7. LeftBehind
  BY <1>2 DEF Init, LeftBehind
<1>8. QueuedForOwner
  BY <1>2 DEF Init, QueuedForOwner
<1>9. \A t \in Threads : cache[t] = NoMessages /\ \A i \in RemoteSlots : cache[t][i] = <<>>
  BY DEF Init, NoMessages
<1>10. CachedForOthers
  BY <1>2, <1>9 DEF CachedForOthers
<1>11. CacheAccounted
  <2>1. \A t \in Threads : Cardinality(Positions(cache[t])) = 0
    BY <1>9, PositionsEmpty
  <2>2. 0 < Threshold
    BY ThreadAllocatorConstants
  <2>3. \A t \in Threads : cache_size[t] = 0 /\ pc[t] = "off"
    BY DEF Init
  <2> QED BY <2>1, <2>2, <2>3 DEF CacheAccounted, Positions
<1>12. CacheEmptied
  BY <1>9 DEF Init, CacheEmptied
<1>13. PlacedByKind
  <2> SUFFICES ASSUME NEW obj \in Objects PROVE Nowhere(op, cache, queue, free, live, obj) /\ class[SlabOf(obj)] = "none"
    BY DEF PlacedByKind
  <2>1. SlabOf(obj) \in Slabs
    BY ObjectFacts
  <2>2. CachedAt(cache, obj) = {}
    BY <1>9 DEF CachedAt
  <2>3. QueuedAt(queue, obj) = {}
    BY DEF Init, QueuedAt
  <2>4. Calls(op, obj) = {}
    BY <1>2 DEF Init, Calls
  <2> QED BY <2>1, <2>2, <2>3, <2>4 DEF Init, Nowhere
<1>14. Placed
  BY <1>1, <1>13, PlacedKinds
<1> QED BY <1>1, <1>3, <1>4, <1>5, <1>6, <1>7, <1>8, <1>10, <1>11, <1>12, <1>14 DEF IInv

(* Every step keeps the inductive invariant.                               *)
LEMMA Preserved == IInv /\ [Next]_vars => IInv'
<1> SUFFICES ASSUME IInv, [Next]_vars PROVE IInv'
  OBVIOUS
<1>1. /\ TypeOK /\ Control /\ IdsApart /\ SlabsOwned /\ ListedIffAvailable /\ LeftBehind
      /\ QueuedForOwner /\ CachedForOthers /\ CacheAccounted /\ CacheEmptied /\ Placed
  BY DEF IInv
<1>2. PlacedByKind
  BY <1>1, PlacedKinds
<1>3. CASE Next
  <2>1. PICK t \in Threads : Move(t)
    BY <1>1, <1>3, Moves
  <2>2. TypeOK'
    BY <1>1, <1>2, <2>1, TypeMove
  <2>3. Control' /\ IdsApart'
    BY <1>1, <2>1, ControlStep, IdsApartStep
  <2>4. SlabsOwned'
    BY <1>1, <2>1, <2>2, SlabsOwnedStep
  <2>5. ListedIffAvailable' /\ LeftBehind'
    BY <1>1, <1>2, <2>1, <2>2, ListsStep
  <2>6. QueuedForOwner'
    BY <1>1, <2>1, <2>2, QueuedForOwnerStep
  <2>7. CachedForOthers'
    BY <1>1, <1>2, <2>1, <2>2, CachedForOthersStep
  <2>8. CacheAccounted' /\ CacheEmptied'
    BY <1>1, <1>2, <2>1, <2>2, CacheStep
  <2>9. PlacedByKind'
    BY <1>1, <1>2, <2>1, PlacedStep
  <2>10. Placed'
    BY <2>2, <2>9, PlacedKindsNext
  <2> QED BY <2>2, <2>3, <2>4, <2>5, <2>6, <2>7, <2>8, <2>10 DEF IInv
<1>4. CASE UNCHANGED vars
  <2>1. UNCHANGED <<pc, op, then, shift, cache, cache_size, queue, lists, headquarter,
                    owner, kind, used, class, free, remote_alloc, pooled, live, orphaned>>
    BY <1>4 DEF vars
  <2>2. TypeOK'
    BY <1>1, <2>1 DEF TypeOK
  <2>3. Control' /\ IdsApart' /\ SlabsOwned'
    BY <1>1, <2>1 DEF Control, IdsApart, SlabsOwned
  <2>4. ListedIffAvailable' /\ LeftBehind' /\ QueuedForOwner'
    BY <1>1, <2>1 DEF ListedIffAvailable, LeftBehind, QueuedForOwner
  <2>5. CachedForOthers' /\ CacheAccounted' /\ CacheEmptied'
    BY <1>1, <2>1 DEF CachedForOthers, CacheAccounted, CacheEmptied
  <2>6. Placed'
    BY <1>1, <2>1 DEF Placed, PlacesOf
  <2> QED BY <2>2, <2>3, <2>4, <2>5, <2>6 DEF IInv
<1> QED BY <1>3, <1>4

(* The invariant holds always, for any number of threads, chunks and size    *)
(* classes, while threads exit and others take up their remote_allocators.   *)
THEOREM Inductive == Spec => []IInv
BY Initially, Preserved, PTL DEF Spec

(* Every variable keeps to its type in every reachable state. *)
THEOREM TypeCorrect == Spec => []TypeOK
<1>1. IInv => TypeOK
  BY DEF IInv
<1> QED BY <1>1, Inductive, PTL

(* An object of a slab in use is held, free or under way in exactly one    *)
(* place: no call returns an object that is held, and no message is lost   *)
(* or doubled by post, by the forwarding of process or by the reuse of a   *)
(* remote_allocator.                                                       *)
THEOREM OnePlaceAlways == Spec => []OnePlace
<1>1. ASSUME IInv PROVE OnePlace
  <2> SUFFICES ASSUME NEW s \in Slabs, class[s] # "none", NEW obj \in ObjectsOf(s)
               PROVE  Cardinality(PlacesOf(obj)) = 1
    BY DEF OnePlace
  <2>1. obj \in Objects /\ SlabOf(obj) = s
    BY SlabFacts
  <2>2. Placed
    BY <1>1 DEF IInv
  <2>3. \E p \in PlacesOf(obj) : PlacesOf(obj) = {p}
    BY <2>1, <2>2 DEF Placed
  <2> QED BY <2>3, FS_Singleton
<1> QED BY <1>1, Inductive, PTL

(* A cached message is for another thread and in the slot that the post    *)
(* under way looks for it in.                                              *)
THEOREM CachedForOthersAlways == Spec => []CachedForOthers
<1>1. IInv => CachedForOthers
  BY DEF IInv
<1> QED BY <1>1, Inductive, PTL

(* Between posts remote_cache's size is what it caches, and it is below    *)
(* the threshold whenever no call is under way.                            *)
THEOREM CacheAccountedAlways == Spec => []CacheAccounted
<1>1. IInv => CacheAccounted
  BY DEF IInv
<1> QED BY <1>1, Inductive, PTL

(* A thread finds a slab of its own in the list of its class exactly while *)
(* the slab has free objects.                                              *)
THEOREM ListedIffAvailableAlways == Spec => []ListedIffAvailable
<1>1. IInv => ListedIffAvailable
  BY DEF IInv
<1> QED BY <1>1, Inductive, PTL

-----------------------------------------------------------------------------
(* The way of a message.  Two ids that are in one slot agree in its bits   *)
(* and the bits below, and the pusher's own differs from them there.       *)
LEMMA HopDigits ==
  ASSUME NEW a \in Ids, NEW b \in Ids, NEW target \in Ids, NEW at \in Nat,
         (b - a) % 2 ^ at = 0, (target - a) % 2 ^ at = 0,
         SlotAt(b, at) = SlotAt(target, at), SlotAt(target, at) # SlotAt(a, at)
  PROVE  Further(a, b, target)
<1> DEFINE n == at + RemoteSlotBits
           M == Max(Ids)
<1>1. a \in Nat /\ b \in Nat /\ target \in Nat
  BY ThreadAllocatorConstants
<1>2. RemoteSlotBits \in Nat /\ RemoteSlotBits # 0
  BY ThreadAllocatorConstants
<1>3. n \in Nat /\ n # 0
  BY <1>2
<1>4. 2 ^ at \in Nat /\ 2 ^ at > 0 /\ 2 ^ n \in Nat /\ 2 ^ n > 0
  <2> HIDE DEF n
  <2>1. 2 ^ at \in Nat \ {0} /\ 2 ^ n \in Nat \ {0}
    BY <1>3, Pow2Pos
  <2>2. \A x \in Nat \ {0} : x > 0
    OBVIOUS
  <2> QED BY <2>1, <2>2
<1>5. (b - target) % 2 ^ at = 0 /\ (a - target) % 2 ^ at = 0
  <2> DEFINE p == 2 ^ at
  <2>1. p \in Nat /\ p > 0
    BY <1>4
  <2>2. (b - a) % p = 0 /\ (target - a) % p = 0
    OBVIOUS
  <2>5. (b - target) % p = 0 /\ (a - target) % p = 0
    <3> HIDE DEF p
    <3>1. b % p = a % p /\ target % p = a % p
      BY <1>1, <2>1, <2>2, DiffRem, ZenonT(40)
    <3>2. b % p = target % p /\ a % p = target % p
      BY <3>1
    <3>3. (b - target) % p = 0
      BY <1>1, <2>1, <3>2, DiffRem
    <3>4. (a - target) % p = 0
      BY <1>1, <2>1, <3>2, DiffRem
    <3> QED BY <3>3, <3>4
  <2> QED BY <2>5
<1>6. (b - target) % 2 ^ n = 0
  BY <1>1, <1>5, SlotDigits
<1>7. (a - target) % 2 ^ n # 0
  BY <1>1, <1>5, SlotDigits
<1> HIDE DEF n, M
<1>8. M \in Nat /\ b <= M /\ target <= M /\ a <= M
  <2>1. Ids \in SUBSET Nat /\ Ids # {} /\ IsFiniteSet(Ids)
    BY ThreadAllocatorConstants
  <2> QED BY <2>1, MaxGreatest DEF M
<1>9. a # target
  <2> SUFFICES ASSUME a = target PROVE FALSE
    OBVIOUS
  <2> QED OBVIOUS
<1>10. CASE n <= M
  <2>1. n \in 1 .. M
    BY <1>3, <1>8, <1>10
  <2> QED BY <1>6, <1>7, <2>1 DEF Further, M
<1>11. CASE M < n
  <2> DEFINE p == 2 ^ n
             q == 2 ^ M
  <2>1. M \in 1 .. M
    BY <1>1, <1>8, <1>9
  <2>2. M < q /\ q \in Nat /\ q > 0 /\ n < p /\ p \in Nat /\ p > 0
    <3>1. M < q /\ n < p
      BY <1>3, <1>8, Pow2Above
    <3>2. q \in Nat
      BY <1>8, Pow2Nat
    <3> HIDE DEF p, q
    <3> QED BY <1>4, <1>8, <3>1, <3>2 DEF p
  <2> HIDE DEF p, q
  <2>3. a < q /\ b < q /\ target < q /\ b < p /\ target < p
    BY <1>1, <1>3, <1>8, <1>11, <2>2
  <2>4. \A x \in Nat, y \in Nat : y > 0 /\ x < y => x % y = x
    OBVIOUS
  <2>5. b % p = b /\ target % p = target /\ a % q = a /\ b % q = b /\ target % q = target
    BY <1>1, <2>2, <2>3, <2>4
  <2>6. b % p = target % p
    BY <1>1, <1>6, <2>2, DiffRem, ZenonT(40) DEF p
  <2>7. b % q = target % q /\ a % q # target % q
    BY <1>9, <2>5, <2>6
  <2>8. (b - target) % q = 0 /\ (a - target) % q # 0
    BY <1>1, <2>2, <2>7, DiffRem, ZenonT(40)
  <2> QED BY <2>1, <2>8 DEF Further, M, q
<1> QED BY <1>3, <1>8, <1>10, <1>11

(* What is new in a queue was pushed there. *)
LEMMA NewInQueue ==
  ASSUME TypeOK, NEW u \in Threads, Move(u), NEW id \in Ids,
         NEW msg, msg \in Range(queue'[id]), msg \notin Range(queue[id])
  PROVE  \E i \in RemoteSlots : Pushes(u, i, id) /\ msg \in Range(cache[u][i])
<1>1. queue \in [Ids -> Seq(Messages)]
  BY DEF TypeOK
<1>2. CASE queue' = queue
  BY <1>2
<1>3. ASSUME NEW j \in Ids, NEW m \in Messages, Takes(u, j, m) PROVE FALSE
  <2>1. queue' = [queue EXCEPT ![j] = Tail(@)] /\ queue[j] # <<>> /\ queue[j] \in Seq(Messages)
    BY <1>1, <1>3 DEF Takes
  <2>2. Range(Tail(queue[j])) \subseteq Range(queue[j])
    BY <2>1, SeqTail
  <2> QED BY <1>1, <2>1, <2>2
<1>4. ASSUME NEW i \in RemoteSlots, NEW j \in Ids, Pushes(u, i, j)
      PROVE  j = id /\ msg \in Range(cache[u][i])
  <2>1. queue' = [queue EXCEPT ![j] = @ \o cache[u][i]]
    BY <1>4 DEF Pushes
  <2>2. queue[j] \in Seq(Messages) /\ cache[u][i] \in Seq(Messages)
    BY DEF TypeOK
  <2>3. Range(queue[j] \o cache[u][i]) = Range(queue[j]) \cup Range(cache[u][i])
    BY <2>2, SeqConcat
  <2> QED BY <1>1, <2>1, <2>3
<1>5. \/ queue' = queue
      \/ \E j \in Ids, m \in Messages : Takes(u, j, m)
      \/ \E i \in RemoteSlots, j \in Ids : Pushes(u, i, j)
  BY DEF Move, Start, Begins, Call, TakesOwn, Forwards, ProcessDone, Distributes, PostDone, Allocates,
         Returns, FreesOwn, FreesRemote, UseLarge, Exit, Release, messages
<1> QED BY <1>2, <1>3, <1>4, <1>5

(* A message that a post has pushed is nearer to its target, or there.     *)
LEMMA Hop ==
  ASSUME IInv, Next, NEW t \in Threads, NEW id \in Ids, NEW i \in RemoteSlots,
         NEW msg, msg \in Range(queue'[id]), msg \notin Range(queue[id]), msg \in Range(cache[t][i])
  PROVE  Further(remote_alloc[t], id, msg[2])
<1>1. TypeOK /\ CachedForOthers /\ ListedIffAvailable
  BY DEF IInv
<1>2. PlacedByKind
  BY <1>1, PlacedKinds DEF IInv
<1>3. PICK u \in Threads : Move(u)
  BY <1>1, Moves
<1>4. PICK j \in RemoteSlots : Pushes(u, j, id) /\ msg \in Range(cache[u][j])
  BY <1>1, <1>3, NewInQueue
<1>5. u = t /\ i = j
  <2>1. PICK n \in DOMAIN cache[t][i] : msg = cache[t][i][n]
    BY DEF Range
  <2>2. PICK m \in DOMAIN cache[u][j] : msg = cache[u][j][m]
    BY <1>4 DEF Range
  <2>3. CachedAt(cache, msg[1]) = {<<t, i, n>>}
    BY <1>1, <1>2, <2>1, InCache
  <2>4. CachedAt(cache, msg[1]) = {<<u, j, m>>}
    BY <1>1, <1>2, <2>2, InCache
  <2>5. <<t, i, n>> = <<u, j, m>>
    BY <2>3, <2>4
  <2> QED BY <2>5
<1>6. /\ cache[t][i] # <<>> /\ Head(cache[t][i])[2] = id /\ i # OwnSlot(t) /\ pc[t] = "post"
      /\ cache[t][i] \in Seq(Messages)
  BY <1>1, <1>4, <1>5 DEF Pushes, TypeOK
<1>7. Head(cache[t][i]) \in Range(cache[t][i]) /\ msg \in Messages
  BY <1>6, SeqTail DEF Range
<1>8. remote_alloc[t] \in Ids /\ shift[t] \in Nat /\ msg[2] \in Ids
  BY <1>1, <1>6, <1>7 DEF TypeOK, Messages
<1>9. /\ SlotAt(id, shift[t]) = i /\ (id - remote_alloc[t]) % 2 ^ shift[t] = 0
      /\ SlotAt(msg[2], shift[t]) = i /\ (msg[2] - remote_alloc[t]) % 2 ^ shift[t] = 0
  BY <1>1, <1>6, <1>7 DEF CachedForOthers
<1>10. SlotAt(remote_alloc[t], shift[t]) # i
  BY <1>6 DEF OwnSlot
<1> QED BY <1>8, <1>9, <1>10, HopDigits

(* A message that is pushed to a thread other than its target has come     *)
(* closer to it: the ids agree in more of their low bits.  So forwarding   *)
(* cannot send it in a circle.                                             *)
THEOREM EveryHopConvergesAlways == Spec => EveryHopConverges
<1> DEFINE Hops == \A t \in Threads, id \in Ids :
                     \A msg \in Range(queue'[id]) \ Range(queue[id]) :
                       (\E i \in RemoteSlots : msg \in Range(cache[t][i]))
                          => Further(remote_alloc[t], id, msg[2])
<1>1. IInv /\ [Next]_vars => [Hops]_vars
  <2> SUFFICES ASSUME IInv, Next PROVE Hops
    OBVIOUS
  <2> QED BY Hop
<1> QED BY <1>1, Inductive, PTL DEF Spec, EveryHopConverges
=============================================================================
