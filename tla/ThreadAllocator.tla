--------------------------- MODULE ThreadAllocator ---------------------------
(***************************************************************************)
(* The thread allocators (thread_allocator.hpp), their slabs and the       *)
(* messages by which an object that is freed by a thread other than the    *)
(* owner of its slab finds its way back.                                   *)
(*                                                                         *)
(* A chunk is LargeThreshold bytes of reserved memory: a small_slab, the   *)
(* "headquarter" that hands out its meta_slabs, or one medium_slab.  Both  *)
(* kinds of slab keep their free objects in a stack; which of them is on   *)
(* top is abstracted to a choice.  The lock-free queues and stacks of the  *)
(* ciel library are represented by the sequences they linearize to.        *)
(***************************************************************************)
EXTENDS CacheSlots, SequencesExt, FiniteSets

CONSTANTS
  Threads,
  Mortal,          \* the threads that may exit (and start again)
  Ids,             \* the ids (addresses) of the remote_allocators in the pool
  Threshold,       \* CacheSizeThreshold, in objects
  Chunks,
  SlabsPerChunk,   \* meta_slabs in a small_slab
  Slots,           \* the places for objects in a slab
  SmallClasses, MediumClasses,  \* the size classes in use
  MaxLive          \* bound: objects held and calls under way

NoId == -1

Classes == SmallClasses \cup MediumClasses

Slabs == Chunks \X (1 .. SlabsPerChunk)

Objects == Chunks \X (1 .. SlabsPerChunk) \X Slots

SlabOf(obj) == <<obj[1], obj[2]>>

ObjectsOf(slab) == {<<slab[1], slab[2], n>> : n \in Slots}

ASSUME ThreadAllocatorConstants ==
  /\ Ids \subseteq Nat
  /\ {RemoteSlotBits, Threshold, SlabsPerChunk} \subseteq Nat \ {0}
  /\ Slots # {} /\ IsFiniteSet(Slots) /\ IsFiniteSet(Ids)
  /\ SmallClasses \cap MediumClasses = {} /\ "none" \notin Classes
  /\ Mortal \subseteq Threads
  /\ MaxLive \in Nat

NoMessages == [i \in RemoteSlots |-> <<>>]

VARIABLES
  pc,        \* what each thread is doing
  op,        \* the call it is in: <<"alloc", class>>, <<"dealloc", object>>, ...
  then,      \* where it goes on after a post
  shift,     \* local of remote_cache::post
  remote_alloc,  \* the id of the thread's remote_allocator, or NoId
  lists,     \* small_slabs_ and medium_slabs_: the slabs with free objects
  headquarter,   \* small_slabs_headquarter_: the chunks with unused meta_slabs
  cache,     \* remote_caches.remote_lists
  cache_size,
  queue,     \* message_queue, by id: messages <<object, target id>>
  pooled,    \* pool<remote_allocator>: the released ids, a stack
  owner,     \* the remote_alloc_ of each chunk, or NoId
  kind,      \* global_pagemap: the kind of each chunk
  used,      \* how many meta_slabs of a chunk have been handed out
  class,     \* the size class of each slab, or "none"
  free,      \* the free objects of each slab
  live,      \* the objects that callers hold
  orphaned   \* history: slabs that were listed by a thread when it exited

control == <<pc, op, then, shift>>
messages == <<cache, cache_size, queue>>
slabs == <<lists, headquarter, owner, kind, used, class, free>>
vars == <<pc, op, then, shift, cache, cache_size, queue, lists, headquarter,
          owner, kind, used, class, free, remote_alloc, pooled, live, orphaned>>

Init ==
  /\ pc = [t \in Threads |-> "off"]
  /\ op = [t \in Threads |-> <<>>]
  /\ then = [t \in Threads |-> "idle"]
  /\ shift = [t \in Threads |-> 0]
  /\ remote_alloc = [t \in Threads |-> NoId]
  /\ lists = [t \in Threads |-> [c \in Classes |-> <<>>]]
  /\ headquarter = [t \in Threads |-> <<>>]
  /\ cache = [t \in Threads |-> NoMessages]
  /\ cache_size = [t \in Threads |-> 0]
  /\ queue = [id \in Ids |-> <<>>]
  /\ pooled = <<>>
  /\ owner = [k \in Chunks |-> NoId]
  /\ kind = [k \in Chunks |-> "Wild"]
  /\ used = [k \in Chunks |-> 0]
  /\ class = [s \in Slabs |-> "none"]
  /\ free = [s \in Slabs |-> {}]
  /\ live = {}
  /\ orphaned = {}

-----------------------------------------------------------------------------
(* pool::acquire takes the last released object, or a new one.             *)
NeverUsed == {id \in Ids : /\ \A t \in Threads : remote_alloc[t] # id
                           /\ \A n \in DOMAIN pooled : pooled[n] # id}

(* The first use of thread_allocator::get() in a thread. *)
Start(t) ==
  /\ pc[t] = "off"
  /\ \/ /\ pooled # <<>>
        /\ remote_alloc' = [remote_alloc EXCEPT ![t] = Head(pooled)]
        /\ pooled' = Tail(pooled)
     \/ /\ pooled = <<>>
        /\ \E id \in NeverUsed : remote_alloc' = [remote_alloc EXCEPT ![t] = id]
        /\ UNCHANGED pooled
  /\ pc' = [pc EXCEPT ![t] = "idle"]
  /\ UNCHANGED <<op, then, shift, messages, slabs, live, orphaned>>

-----------------------------------------------------------------------------
(* A call of allocate or deallocate begins with the message queue.         *)
Call(t, o) ==
  /\ pc[t] = "idle"
  /\ pc' = [pc EXCEPT ![t] = "handle"]
  /\ op' = [op EXCEPT ![t] = o]
  /\ live' = IF o[1] = "dealloc" THEN live \ {o[2]} ELSE live
  /\ UNCHANGED <<then, shift, messages, slabs, remote_alloc, pooled, orphaned>>

(* Mutation: the slot is computed with % RemoteMask in place of &.         *)
EnqueueByRemainder(t, msg) ==
  cache' = [cache EXCEPT ![t][msg[2] % (2 ^ RemoteSlotBits - 1)] = Append(@, msg)]

(* remote_cache::enqueue *)
Enqueue(t, msg) ==
  cache' = [cache EXCEPT ![t][SlotAt(msg[2], 0)] = Append(@, msg)]

(* The owner's half of small_dealloc and medium_dealloc: the object is free *)
(* again, and a slab that was drained is back in the list of its class.    *)
LocalDealloc(t, obj) ==
  LET slab == SlabOf(obj) IN
  /\ free' = [free EXCEPT ![slab] = @ \cup {obj}]
  /\ lists' = IF free[slab] = {}
              THEN [lists EXCEPT ![t][class[slab]] = <<slab>> \o @]
              ELSE lists
  /\ UNCHANGED <<headquarter, owner, kind, used, class>>

(* Mutation: size is not reset.                                            *)
PostWithoutReset(t, next) ==
  /\ pc' = [pc EXCEPT ![t] = "post"]
  /\ then' = [then EXCEPT ![t] = next]
  /\ shift' = [shift EXCEPT ![t] = 0]
  /\ UNCHANGED cache_size

(* The first lines of remote_cache::post; the thread then goes on at next. *)
Post(t, next) ==
  /\ cache_size' = [cache_size EXCEPT ![t] = 0]
  /\ pc' = [pc EXCEPT ![t] = "post"]
  /\ then' = [then EXCEPT ![t] = next]
  /\ shift' = [shift EXCEPT ![t] = 0]

(* post<true>, with size bytes in the cache *)
PostTrue(t, size, next) ==
  \/ /\ size >= Threshold
     /\ Post(t, next)
  \/ /\ size < Threshold
     /\ cache_size' = [cache_size EXCEPT ![t] = size]
     /\ pc' = [pc EXCEPT ![t] = next]
     /\ UNCHANGED <<then, shift>>

(* handle_message_queue: the callback of process, for one message ...      *)
Process(t) ==
  LET id == remote_alloc[t]
      msg == Head(queue[id])
  IN  /\ pc[t] = "handle"
      /\ queue[id] # <<>>
      /\ queue' = [queue EXCEPT ![id] = Tail(@)]
      /\ \/ /\ msg[2] = id
            /\ LocalDealloc(t, msg[1])
            /\ UNCHANGED <<cache, cache_size>>
         \/ /\ msg[2] # id
            /\ Enqueue(t, msg)
            /\ cache_size' = [cache_size EXCEPT ![t] = @ + 1]
            /\ UNCHANGED slabs
      /\ UNCHANGED <<control, remote_alloc, pooled, live, orphaned>>

(* ... and post<true>.  process is not ours: it may stop at a message that *)
(* is being pushed, so it is not assumed to drain the queue.               *)
ProcessDone(t) ==
  /\ pc[t] = "handle"
  /\ PostTrue(t, cache_size[t], "body")
  /\ UNCHANGED <<op, cache, queue, slabs, remote_alloc, pooled, live, orphaned>>

-----------------------------------------------------------------------------
(* remote_cache::post.  The lists of the other slots are pushed, lowest    *)
(* slot first, each to the owner of its first message's slab; what is in   *)
(* the thread's own slot is then distributed by the next bits of its ids.  *)
OwnSlot(t) == SlotAt(remote_alloc[t], shift[t])

(* Mutation: the thread's own slot is pushed like the others.              *)
AllSlots(t) == {i \in RemoteSlots : cache[t][i] # <<>>}

OtherSlots(t) == {i \in RemoteSlots \ {OwnSlot(t)} : cache[t][i] # <<>>}

(* Mutation: push(first, first), which drops the rest of the list.         *)
PostPushFirst(t) ==
  LET i == CHOOSE i \in OtherSlots(t) : \A j \in OtherSlots(t) : i <= j
      l == cache[t][i]
      first == Head(l)[1]
  IN  /\ pc[t] = "post"
      /\ OtherSlots(t) # {}
      /\ queue' = [queue EXCEPT ![owner[first[1]]] = Append(@, Head(l))]
      /\ cache' = [cache EXCEPT ![t][i] = <<>>]
      /\ UNCHANGED <<control, cache_size, slabs, remote_alloc, pooled, live, orphaned>>

PostPush(t) ==
  LET i == CHOOSE i \in OtherSlots(t) : \A j \in OtherSlots(t) : i <= j
      l == cache[t][i]
      first == Head(l)[1]
  IN  /\ pc[t] = "post"
      /\ OtherSlots(t) # {}
      /\ queue' = [queue EXCEPT ![owner[first[1]]] = @ \o l]
      /\ cache' = [cache EXCEPT ![t][i] = <<>>]
      /\ UNCHANGED <<control, cache_size, slabs, remote_alloc, pooled, live, orphaned>>

(* Mutation: shift += RemoteSlotBits is missing.                           *)
SameShift(t) == shift[t]

NextShift(t) == shift[t] + RemoteSlotBits

PostRebucket(t) ==
  LET next == NextShift(t)
      l == cache[t][OwnSlot(t)]
  IN  /\ pc[t] = "post"
      /\ OtherSlots(t) = {}
      /\ l # <<>>
      /\ cache' = [cache EXCEPT ![t] = [i \in RemoteSlots |-> Bucket(l, next, i)]]
      /\ shift' = [shift EXCEPT ![t] = next]
      /\ UNCHANGED <<pc, op, then, cache_size, queue, slabs, remote_alloc, pooled, live, orphaned>>

PostDone(t) ==
  /\ pc[t] = "post"
  /\ \A i \in RemoteSlots : cache[t][i] = <<>>
  /\ pc' = [pc EXCEPT ![t] = then[t]]
  /\ then' = [then EXCEPT ![t] = "idle"]
  /\ shift' = [shift EXCEPT ![t] = 0]
  /\ UNCHANGED <<op, messages, slabs, remote_alloc, pooled, live, orphaned>>

-----------------------------------------------------------------------------
(* Mutation: the object stays on the slab's stack.                         *)
AllocListedStays(t, c) ==
  /\ lists[t][c] # <<>>
  /\ \E obj \in free[Head(lists[t][c])] : live' = live \cup {obj}
  /\ UNCHANGED slabs

(* small_alloc and medium_alloc when the class has a slab in its list.     *)
AllocListed(t, c) ==
  LET slab == Head(lists[t][c]) IN
  /\ lists[t][c] # <<>>
  /\ \E obj \in free[slab] :
       /\ free' = [free EXCEPT ![slab] = @ \ {obj}]
       /\ live' = live \cup {obj}
  /\ lists' = IF Cardinality(free[slab]) = 1
              THEN [lists EXCEPT ![t][c] = Tail(@)]
              ELSE lists
  /\ UNCHANGED <<headquarter, owner, kind, used, class>>

(* The chunk's part of a new slab: init and global_pagemap.store. *)
NewChunk(t, chunk, k) ==
  /\ owner' = [owner EXCEPT ![chunk] = remote_alloc[t]]
  /\ kind' = [kind EXCEPT ![chunk] = k]

(* The new slab's part: init, allocate, and into the list if there is more. *)
NewSlab(t, slab, c) ==
  /\ class' = [class EXCEPT ![slab] = c]
  /\ \E obj \in ObjectsOf(slab) :
       /\ live' = live \cup {obj}
       /\ free' = [free EXCEPT ![slab] = ObjectsOf(slab) \ {obj}]
  /\ lists' = IF Cardinality(Slots) > 1
              THEN [lists EXCEPT ![t][c] = <<slab>> \o @]
              ELSE lists

Unreserved == {chunk \in Chunks : owner[chunk] = NoId}

(* Mutation: headquarters that are used up stay in the list.               *)
AllocMetaSlabKeepsHq(t, c) ==
  LET hq == Head(headquarter[t]) IN
  /\ c \in SmallClasses
  /\ lists[t][c] = <<>>
  /\ headquarter[t] # <<>>
  /\ used' = [used EXCEPT ![hq] = @ + 1]
  /\ NewSlab(t, <<hq, used[hq] + 1>>, c)
  /\ UNCHANGED <<headquarter, owner, kind>>

(* The headquarters have an unused meta_slab for the class ... *)
AllocMetaSlab(t, c) ==
  LET hq == Head(headquarter[t]) IN
  /\ c \in SmallClasses
  /\ lists[t][c] = <<>>
  /\ headquarter[t] # <<>>
  /\ used' = [used EXCEPT ![hq] = @ + 1]
  /\ headquarter' = IF used[hq] + 1 = SlabsPerChunk
                    THEN [headquarter EXCEPT ![t] = Tail(@)]
                    ELSE headquarter
  /\ NewSlab(t, <<hq, used[hq] + 1>>, c)
  /\ UNCHANGED <<owner, kind>>

(* ... or a new small_slab is reserved for it. *)
AllocSmallSlab(t, c) ==
  /\ c \in SmallClasses
  /\ lists[t][c] = <<>>
  /\ headquarter[t] = <<>>
  /\ \E hq \in Unreserved :
       /\ NewChunk(t, hq, "Small")
       /\ used' = [used EXCEPT ![hq] = 1]
       /\ headquarter' = [headquarter EXCEPT ![t] = IF SlabsPerChunk > 1 THEN <<hq>> ELSE <<>>]
       /\ NewSlab(t, <<hq, 1>>, c)

AllocMediumSlab(t, c) ==
  /\ c \in MediumClasses
  /\ lists[t][c] = <<>>
  /\ \E chunk \in Unreserved :
       /\ NewChunk(t, chunk, "Medium")
       /\ NewSlab(t, <<chunk, 1>>, c)
  /\ UNCHANGED <<headquarter, used>>

(* allocate and deallocate after the message queue *)
Returns(t) ==
  /\ pc[t] = "body"
  /\ op' = [op EXCEPT ![t] = <<>>]
  /\ pc' = [pc EXCEPT ![t] = "idle"]
  /\ UNCHANGED <<then, shift, messages, remote_alloc, pooled, orphaned>>

Allocate(t) ==
  /\ op[t] # <<>> /\ op[t][1] = "alloc"
  /\ \/ AllocListed(t, op[t][2])
     \/ AllocMetaSlab(t, op[t][2])
     \/ AllocSmallSlab(t, op[t][2])
     \/ AllocMediumSlab(t, op[t][2])
  /\ Returns(t)

(* What the pagemap says of the object must be the kind of a slab. *)
Frees(t, obj) == op[t] = <<"dealloc", obj>> /\ kind[obj[1]] # "Wild"

DeallocateOwn(t) ==
  \E obj \in Objects :
    /\ Frees(t, obj)
    /\ owner[obj[1]] = remote_alloc[t]
    /\ LocalDealloc(t, obj)
    /\ Returns(t)
    /\ UNCHANGED live

(* remote_dealloc *)
DeallocateRemote(t) ==
  \E obj \in Objects :
    /\ pc[t] = "body"
    /\ Frees(t, obj)
    /\ owner[obj[1]] # remote_alloc[t]
    /\ Enqueue(t, <<obj, owner[obj[1]]>>)
    /\ PostTrue(t, cache_size[t] + 1, "idle")
    /\ op' = [op EXCEPT ![t] = <<>>]
    /\ UNCHANGED <<queue, slabs, remote_alloc, pooled, live, orphaned>>

(* A large allocation or deallocation is up to the global allocator. *)
UseLarge(t) ==
  /\ op[t] = <<"large">>
  /\ Returns(t)
  /\ UNCHANGED <<slabs, live>>

-----------------------------------------------------------------------------
(* ~thread_allocator: post everything (post<false>), then release the      *)
(* remote_allocator to the pool.  The lists end with the thread.           *)
Exit(t) ==
  /\ t \in Mortal
  /\ pc[t] = "idle"
  /\ Post(t, "release")
  /\ UNCHANGED <<op, cache, queue, slabs, remote_alloc, pooled, live, orphaned>>

Listed(t) == UNION {Range(lists[t][c]) : c \in Classes}

Release(t) ==
  /\ pc[t] = "release"
  /\ pooled' = <<remote_alloc[t]>> \o pooled
  /\ remote_alloc' = [remote_alloc EXCEPT ![t] = NoId]
  /\ lists' = [lists EXCEPT ![t] = [c \in Classes |-> <<>>]]
  /\ headquarter' = [headquarter EXCEPT ![t] = <<>>]
  /\ orphaned' = orphaned \cup Listed(t)
  /\ pc' = [pc EXCEPT ![t] = "off"]
  /\ UNCHANGED <<op, then, shift, messages, owner, kind, used, class, free, live>>

-----------------------------------------------------------------------------
(* Bounds on the calls: there is a chunk for every allocation under way,   *)
(* and no more than MaxLive objects are held or on their way.              *)
Allocating == {t \in Threads : op[t] # <<>> /\ op[t][1] = "alloc"}

InUse == UNION {ObjectsOf(s) \ free[s] : s \in {s \in Slabs : class[s] # "none"}}

Room == /\ Cardinality(Unreserved) > Cardinality(Allocating)
        /\ Cardinality(InUse) + Cardinality(Allocating) < MaxLive

Step(t) == \/ Process(t) \/ ProcessDone(t)
           \/ PostPush(t) \/ PostRebucket(t) \/ PostDone(t)
           \/ Allocate(t) \/ DeallocateOwn(t) \/ DeallocateRemote(t) \/ UseLarge(t)
           \/ Release(t)

CallLarge(t) == Call(t, <<"large">>)

Next == \E t \in Threads :
          \/ Start(t)
          \/ \E c \in Classes : Room /\ Call(t, <<"alloc", c>>)
          \/ \E obj \in live : Call(t, <<"dealloc", obj>>)
          \/ CallLarge(t)
          \/ Step(t)
          \/ Exit(t)

Spec == Init /\ [][Next]_vars

(* A thread that runs finishes its calls; nothing makes it call again.     *)
FairSpec == Spec /\ \A t \in Threads : WF_vars(Step(t))

-----------------------------------------------------------------------------
Messages == Objects \X Ids

Ops == {<<>>, <<"large">>} \cup {<<"alloc", c>> : c \in Classes}
                           \cup {<<"dealloc", obj>> : obj \in Objects}

TypeOK ==
  /\ pc \in [Threads -> {"off", "idle", "handle", "post", "body", "release"}]
  /\ op \in [Threads -> Ops]
  /\ then \in [Threads -> {"idle", "body", "release"}]
  /\ shift \in [Threads -> Nat] /\ cache_size \in [Threads -> Nat]
  /\ remote_alloc \in [Threads -> Ids \cup {NoId}]
  /\ \A t \in Threads : remote_alloc[t] = NoId <=> pc[t] = "off"
  /\ lists \in [Threads -> [Classes -> Seq(Slabs)]]
  /\ headquarter \in [Threads -> Seq(Chunks)]
  /\ cache \in [Threads -> [RemoteSlots -> Seq(Messages)]]
  /\ queue \in [Ids -> Seq(Messages)]
  /\ pooled \in Seq(Ids)
  /\ owner \in [Chunks -> Ids \cup {NoId}]
  /\ kind \in [Chunks -> {"Wild", "Small", "Medium"}]
  /\ used \in [Chunks -> 0 .. SlabsPerChunk]
  /\ class \in [Slabs -> Classes \cup {"none"}]
  /\ free \in [Slabs -> SUBSET Objects]
  /\ \A s \in Slabs : free[s] \subseteq ObjectsOf(s)
  /\ live \subseteq Objects
  /\ orphaned \subseteq Slabs

(* The places where an object is. *)
PlacesOf(obj) ==
  {<<"held">> : x \in live \cap {obj}}
  \cup {<<"free">> : x \in free[SlabOf(obj)] \cap {obj}}
  \cup {<<"call", t>> : t \in {t \in Threads : op[t] = <<"dealloc", obj>>}}
  \cup (UNION {UNION {{<<"cache", t, i, n>> :
                           n \in {n \in DOMAIN cache[t][i] : cache[t][i][n][1] = obj}} :
                         i \in RemoteSlots} : t \in Threads})
  \cup (UNION {{<<"queue", id, n>> : n \in {n \in DOMAIN queue[id] : queue[id][n][1] = obj}} : id \in Ids})

(* Every object of a slab is in exactly one place: held by a caller, free  *)
(* in its slab, or on its way back as one message in one cache or queue.   *)
(* So no call of allocate returns an object that somebody else holds, and  *)
(* no post, repost, exit or reuse of a remote_allocator loses or doubles   *)
(* a message.                                                              *)
OnePlace ==
  \A s \in Slabs : class[s] # "none" =>
     \A obj \in ObjectsOf(s) : Cardinality(PlacesOf(obj)) = 1

(* A thread can allocate from a slab it owns if and only if the slab has a *)
(* free object: it is then in the list of its class, once, and in no other *)
(* list.  (Except slabs that were in a list of a thread that exited: they  *)
(* are never in a list again.)                                             *)
ListedIffAvailable ==
  \A t \in Threads :
    /\ \A s \in Slabs :
         (pc[t] # "off" /\ owner[s[1]] = remote_alloc[t] /\ class[s] # "none")
           => (s \in Range(lists[t][class[s]]) <=> free[s] # {} /\ s \notin orphaned)
    /\ \A c \in Classes :
         /\ IsInjective(lists[t][c])
         /\ \A s \in Range(lists[t][c]) : class[s] = c /\ owner[s[1]] = remote_alloc[t]
    /\ \A chunk \in Range(headquarter[t]) :
         owner[chunk] = remote_alloc[t] /\ used[chunk] < SlabsPerChunk

(* Messages in a cache are for others, in the slot of their target; while  *)
(* the thread posts, the slot is that of the current shift and the bits    *)
(* below it, which no longer tell them apart, are the thread's own.  This  *)
(* is why post comes to an end and why a message can be pushed on along    *)
(* with others of its slot.                                                *)
CachedForOthers ==
  \A t \in Threads : \A i \in RemoteSlots : \A msg \in Range(cache[t][i]) :
     /\ msg[2] = owner[msg[1][1]]
     /\ msg[2] # remote_alloc[t]
     /\ SlotAt(msg[2], shift[t]) = i
     /\ (msg[2] - remote_alloc[t]) % 2 ^ shift[t] = 0

(* The size decides when messages are posted: between posts it accounts    *)
(* for all that is cached, and a thread that is not in a call keeps less   *)
(* than the threshold.                                                     *)
CacheAccounted ==
  \A t \in Threads :
    /\ pc[t] # "post" =>
         cache_size[t] = Cardinality(UNION {{<<i, n>> : n \in DOMAIN cache[t][i]} : i \in RemoteSlots})
    /\ pc[t] \in {"idle", "body"} => cache_size[t] < Threshold
    /\ pc[t] \in {"release", "off"} => cache_size[t] = 0

(* a is further from the target than b: they differ in a lower bit. *)
Further(a, b, target) ==
  \E n \in 1 .. Max(Ids) : /\ (a - target) % 2 ^ n # 0
                           /\ (b - target) % 2 ^ n = 0

(* A message may be pushed to another thread than its target, which then   *)
(* forwards it; every hop brings it closer, so it cannot go round.         *)
EveryHopConverges ==
  [][\A t \in Threads, id \in Ids :
       \A msg \in Range(queue'[id]) \ Range(queue[id]) :
          (\E i \in RemoteSlots : msg \in Range(cache[t][i]))
             => Further(remote_alloc[t], id, msg[2])]_vars

(* Every call returns, whatever messages have to be forwarded on the way,  *)
(* and an exiting thread gets rid of all its messages.                     *)
CallsReturn == \A t \in Threads : pc[t] # "off" ~> pc[t] \in {"idle", "off"}
=============================================================================
