-------------------------------- MODULE Range --------------------------------
(***************************************************************************)
(* The pipeline of ranges that the tests build (test/src/range.cpp):       *)
(*                                                                         *)
(*   small_buddy -> stats -> commit -> lock -> log -> large_buddy          *)
(*               -> pagemap_register -> reserve -> the operating system    *)
(*                                                                         *)
(* Any thread allocates and frees through it, and a block may be freed by  *)
(* another thread than the one that allocated it.  The small buddy is      *)
(* thread local, everything from large_buddy on runs inside lock_range,    *)
(* and the layers in between take one step per access to shared state.     *)
(***************************************************************************)
EXTENDS Integers, Sequences, FiniteSetsExt

CONSTANTS
  Threads,
  Mortal,         \* the threads that may exit
  SmallBits,      \* small_buddy_range: log2 of its MinBlockSize
  PageBits,       \* pal::page_size_bits
  BitRefill,      \* large_buddy_range: log2 of its RefillSize
  AddressBits,
  Sizes,          \* log2 of the sizes the callers ask for
  MmapPages,      \* the pages where mmap places what it maps
  MprotectFails,  \* whether mprotect may fail
  AlignedAllocation,  \* whether pal is pal_apple, which lets the system align
  MaxLive         \* bound: blocks held and calls under way

ASSUME RangeSizes ==
  /\ {SmallBits, PageBits, BitRefill, AddressBits} \subseteq Nat
  /\ SmallBits < PageBits /\ PageBits <= BitRefill /\ BitRefill < AddressBits
  /\ Sizes \subseteq SmallBits .. AddressBits - 1
  /\ Mortal \subseteq Threads
  /\ {MprotectFails, AlignedAllocation} \subseteq BOOLEAN
  /\ MaxLive \in Nat

Small == INSTANCE BuddyOps WITH BitBegin <- SmallBits, BitEnd <- PageBits
Large == INSTANCE BuddyOps WITH BitBegin <- PageBits, BitEnd <- AddressBits

nullptr == 0

PageSize == 2 ^ PageBits

(* The pages from address first up to, and without, address last. *)
PagesBetween(first, last) == first \div PageSize .. (last - 1) \div PageSize

PagesOf(addr, bits) == PagesBetween(addr, addr + 2 ^ bits)

(* Page 0 is never mapped.  *)
ASSUME RangePages == MmapPages \subseteq PagesOf(0, AddressBits) \ {0}

VARIABLES
  mapped,      \* the pages this allocator has mapped
  writable,    \* the mapped pages with PROT_READ | PROT_WRITE
  registered,  \* the pages whose entry in the pagemap is committed
  large,       \* large_buddy_range::buddy_ (guarded by lock_range)
  small,       \* small_buddy_range::buddy_, one per thread
  usage,       \* stats_range::current_usage
  peak,        \* stats_range::peak_usage
  live,        \* the blocks <<address, bits>> that callers hold
  pc,          \* where each thread is in the pipeline
  want,        \* the size (bits) of the caller's request
  ptr,         \* the block the layers below small_buddy work on
  cur_usage,   \* locals of stats_range::alloc_range
  pu,
  highest      \* history: the greatest value current_usage has had

os == <<mapped, writable, registered>>
stats == <<usage, peak, highest>>
calls == <<pc, want, ptr, cur_usage, pu>>
vars == <<mapped, writable, registered, large, small, usage, peak, live,
          pc, want, ptr, cur_usage, pu, highest>>

Init == /\ mapped = {} /\ writable = {} /\ registered = {}
        /\ large = Large!EmptyTrees
        /\ small = [t \in Threads |-> Small!EmptyTrees]
        /\ usage = 0 /\ peak = 0 /\ highest = 0
        /\ live = {}
        /\ pc = [t \in Threads |-> "idle"]
        /\ want = [t \in Threads |-> 0]
        /\ ptr = [t \in Threads |-> nullptr]
        /\ cur_usage = [t \in Threads |-> 0]
        /\ pu = [t \in Threads |-> 0]

-----------------------------------------------------------------------------
(* The operating system and pal.                                           *)

(* Where mmap can place alloc_size bytes, or nullptr when it fails. *)
Mmap(alloc_size) ==
  {nullptr} \cup
  {p \in {page * PageSize : page \in MmapPages} :
     PagesBetween(p, p + alloc_size) \subseteq MmapPages \ mapped}

(* Mutations: the pages before the block stay mapped, the first pages are  *)
(* taken wherever they are.                                                *)
reserve_aligned_head(p, size) ==
  LET aligned == ((p + size - 1) \div size) * size
  IN  [ptr |-> aligned,
       mapped |-> IF p = nullptr THEN mapped \ PagesBetween(size, 2 * size)
                                 ELSE mapped \cup PagesBetween(p, aligned + size)]

reserve_unaligned(p, size) ==
  [ptr |-> p,
   mapped |-> IF p = nullptr THEN mapped ELSE mapped \cup PagesBetween(p, p + size)]

(* pal::reserve_aligned: reserve nearly twice the size, keep the first     *)
(* aligned block and unmap the pages before and after it.  A failed mmap   *)
(* goes the same way, with p = nullptr.                                    *)
reserve_aligned(p, size) ==
  LET alloc_size == 2 * size - PageSize
      aligned == ((p + size - 1) \div size) * size
      reserved == IF p = nullptr THEN {} ELSE PagesBetween(p, p + alloc_size)
      head == IF aligned > p THEN PagesBetween(p, aligned) ELSE {}
      tail == IF p + alloc_size > aligned + size
              THEN PagesBetween(aligned + size, p + alloc_size) ELSE {}
  IN  [ptr |-> aligned, mapped |-> (mapped \cup reserved) \ (head \cup tail)]

(* Where mach_vm_map can place an aligned block, or nullptr. *)
MachVmMap(size) ==
  {nullptr} \cup
  {p \in {page * PageSize : page \in MmapPages} :
     p % size = 0 /\ PagesBetween(p, p + size) \subseteq MmapPages \ mapped}

(* pal_apple::reserve_aligned leaves the alignment to the system. *)
reserve_aligned_apple(p, size) ==
  [ptr |-> p,
   mapped |-> IF p = nullptr THEN mapped ELSE mapped \cup PagesBetween(p, p + size)]

(* Mutation: pal_apple inherits reserve_aligned from pal_posix.            *)
Reservations_posix(size) == {reserve_aligned(p, size) : p \in Mmap(2 * size - PageSize)}

(* What a reservation can come to. *)
Reservations(size) ==
  IF AlignedAllocation
  THEN {reserve_aligned_apple(p, size) : p \in MachVmMap(size)}
  ELSE {reserve_aligned(p, size) : p \in Mmap(2 * size - PageSize)}

(* large_buddy_range refills with max(size, RefillSize). *)
RefillSizeBits(index) == Max({index, BitRefill})

(* The layers below small_buddy_range see whole pages. *)
BlockBits(bits) == Max({bits, PageBits})

-----------------------------------------------------------------------------
(* An insertion writes the node of the block: its entry of the page map in *)
(* the large buddy, its own memory in a small one.  Where that cannot be   *)
(* accessed because an mprotect has failed, the insertion faults and the   *)
(* program ends: no step.  Without such failures nothing is taken for      *)
(* granted here: LargeIsDecommitted and HeldIsWritable then say that no    *)
(* insertion faults.                                                       *)
InsertsLarge ==
  MprotectFails =>
    \A blk \in Large!FreeBlocks(large') \ Large!FreeBlocks(large) : blk[1] \div PageSize \in registered'

InsertsSmall(t) ==
  MprotectFails =>
    \A blk \in Small!FreeBlocks(small'[t]) \ Small!FreeBlocks(small[t]) :
      PagesOf(blk[1], blk[2]) \subseteq writable

(* small_buddy_range::alloc_range: the thread's own tree has a block ...   *)
SmallAllocate(t, bits) ==
  LET res == Small!allocate_block(small[t], bits) IN
  /\ pc[t] = "idle"
  /\ bits < PageBits
  /\ Small!Donors(small[t], bits) # {}
  /\ small' = [small EXCEPT ![t] = res.trees]
  /\ InsertsSmall(t)
  /\ live' = live \cup {<<res.node, bits>>}
  /\ UNCHANGED <<os, large, stats, calls>>

(* ... or the request goes down the pipeline. *)
Request(t, bits) ==
  /\ pc[t] = "idle"
  /\ bits < PageBits => Small!Donors(small[t], bits) = {}
  /\ pc' = [pc EXCEPT ![t] = "lock_alloc"]
  /\ want' = [want EXCEPT ![t] = bits]
  /\ UNCHANGED <<os, large, small, stats, live, ptr, cur_usage, pu>>

(* pagemap::register_range *)
Register(p, bits) == registered \cup PagesOf(p, bits)

(* lock_range and large_buddy_range: a tree has a block ... *)
LargeAllocate(t) ==
  LET index == BlockBits(want[t])
      res == Large!allocate_block(large, index)
  IN  /\ pc[t] = "lock_alloc"
      /\ Large!Donors(large, index) # {}
      /\ large' = res.trees
      /\ ptr' = [ptr EXCEPT ![t] = res.node]
      /\ pc' = [pc EXCEPT ![t] = "commit"]
      /\ UNCHANGED <<os, small, stats, live, want, cur_usage, pu>>
      /\ InsertsLarge

(* ... or refill asks reserve_range for one, through pagemap_register_range. *)
LargeRefill(t) ==
  LET index == BlockBits(want[t])
      bits == RefillSizeBits(index)
  IN  /\ pc[t] = "lock_alloc"
      /\ Large!Donors(large, index) = {}
      /\ \E res \in Reservations(2 ^ bits) :
           /\ mapped' = res.mapped
           /\ writable' = writable \cap res.mapped
           /\ ptr' = [ptr EXCEPT ![t] = res.ptr]
           /\ \/ /\ res.ptr # nullptr
                 /\ \/ registered' = Register(res.ptr, bits)
                    \/ MprotectFails /\ UNCHANGED registered
                 /\ large' = Large!divide_block(large, res.ptr, bits, index)
                 /\ InsertsLarge
                 /\ pc' = [pc EXCEPT ![t] = "commit"]
              \/ /\ res.ptr = nullptr
                 /\ pc' = [pc EXCEPT ![t] = "return"]
                 /\ UNCHANGED <<registered, large>>
      /\ UNCHANGED <<small, stats, live, want, cur_usage, pu>>

(* Mutation: the first page only.                                          *)
CommitFirst(t) ==
  /\ pc[t] = "commit"
  /\ \/ writable' = writable \cup (PagesOf(ptr[t], PageBits) \cap mapped)
     \/ MprotectFails /\ UNCHANGED writable
  /\ pc' = [pc EXCEPT ![t] = "stats_add"]
  /\ UNCHANGED <<mapped, registered, large, small, stats, live, want, ptr, cur_usage, pu>>

(* commit_range: pal::commit returns true whatever mprotect does, so the   *)
(* rollback of commit_range is never taken.                                *)
Commit(t) ==
  /\ pc[t] = "commit"
  /\ \/ writable' = writable \cup (PagesOf(ptr[t], BlockBits(want[t])) \cap mapped)
     \/ MprotectFails /\ UNCHANGED writable
  /\ pc' = [pc EXCEPT ![t] = "stats_add"]
  /\ UNCHANGED <<mapped, registered, large, small, stats, live, want, ptr, cur_usage, pu>>

(* stats_range::alloc_range: fetch_add, then raise the peak to the sum.    *)
StatsAdd(t) ==
  LET sum == usage + 2 ^ BlockBits(want[t]) IN
  /\ pc[t] = "stats_add"
  /\ usage' = sum
  /\ highest' = Max({highest, sum})
  /\ cur_usage' = [cur_usage EXCEPT ![t] = sum]
  /\ pc' = [pc EXCEPT ![t] = "peak_load"]
  /\ UNCHANGED <<os, large, small, peak, live, want, ptr, pu>>

(* Mutation: the local is not refreshed by what is read.                   *)
AfterPeakReadStale(t) ==
  /\ pc' = [pc EXCEPT ![t] = IF peak < cur_usage[t] THEN "peak_cas" ELSE "return"]
  /\ UNCHANGED pu

(* The loop's condition, after a load or a failed exchange stored into pu. *)
AfterPeakRead(t) ==
  /\ pu' = [pu EXCEPT ![t] = peak]
  /\ pc' = [pc EXCEPT ![t] = IF peak < cur_usage[t] THEN "peak_cas" ELSE "return"]

PeakLoad(t) ==
  /\ pc[t] = "peak_load"
  /\ AfterPeakRead(t)
  /\ UNCHANGED <<os, large, small, stats, live, want, ptr, cur_usage>>

(* Mutation: a plain store.                                                *)
PeakStore(t) ==
  /\ pc[t] = "peak_cas"
  /\ peak' = cur_usage[t]
  /\ pc' = [pc EXCEPT ![t] = "return"]
  /\ UNCHANGED <<os, large, small, usage, highest, live, want, ptr, cur_usage, pu>>

PeakExchange(t) ==
  /\ pc[t] = "peak_cas"
  /\ \/ /\ peak = pu[t]
        /\ peak' = cur_usage[t]
        /\ pc' = [pc EXCEPT ![t] = "return"]
        /\ UNCHANGED pu
     \/ /\ peak # pu[t]
        /\ AfterPeakRead(t)
        /\ UNCHANGED peak
  /\ UNCHANGED <<os, large, small, usage, highest, live, want, ptr, cur_usage>>

(* What a finished call leaves in the locals. *)
Finish(t) ==
  /\ pc' = [pc EXCEPT ![t] = "idle"]
  /\ want' = [want EXCEPT ![t] = 0]
  /\ ptr' = [ptr EXCEPT ![t] = nullptr]
  /\ cur_usage' = [cur_usage EXCEPT ![t] = 0]
  /\ pu' = [pu EXCEPT ![t] = 0]

(* Back in small_buddy_range: divide the page if the request was a small   *)
(* one, and return to the caller.                                          *)
Return(t) ==
  /\ pc[t] = "return"
  /\ IF ptr[t] = nullptr
     THEN UNCHANGED <<small, live>>
     ELSE /\ live' = live \cup {<<ptr[t], want[t]>>}
          /\ small' = IF want[t] < PageBits
                      THEN [small EXCEPT ![t] =
                              Small!divide_block(@, ptr[t], PageBits, want[t])]
                      ELSE small
          /\ InsertsSmall(t)
  /\ Finish(t)
  /\ UNCHANGED <<os, large, stats>>

-----------------------------------------------------------------------------
(* small_buddy_range::dealloc_range, of a small block: into the tree of    *)
(* the thread that frees it, and down the pipeline if it grew to a page.   *)
SmallDeallocate(t, blk) ==
  LET res == Small!deallocate_block(small[t], blk[1], blk[2]) IN
  /\ pc[t] = "idle"
  /\ blk[2] < PageBits
  /\ live' = live \ {blk}
  /\ small' = [small EXCEPT ![t] = res.trees]
  /\ InsertsSmall(t)
  /\ IF res.node = nullptr
     THEN UNCHANGED calls
     ELSE /\ pc' = [pc EXCEPT ![t] = "stats_sub"]
          /\ want' = [want EXCEPT ![t] = PageBits]
          /\ ptr' = [ptr EXCEPT ![t] = res.node]
          /\ UNCHANGED <<cur_usage, pu>>
  /\ UNCHANGED <<os, large, stats>>

(* A block of a page or more goes down the pipeline at once. *)
Release(t, blk) ==
  /\ pc[t] = "idle"
  /\ blk[2] >= PageBits
  /\ live' = live \ {blk}
  /\ pc' = [pc EXCEPT ![t] = "stats_sub"]
  /\ want' = [want EXCEPT ![t] = blk[2]]
  /\ ptr' = [ptr EXCEPT ![t] = blk[1]]
  /\ UNCHANGED <<os, large, small, stats, cur_usage, pu>>

StatsSub(t) ==
  /\ pc[t] = "stats_sub"
  /\ usage' = usage - 2 ^ want[t]
  /\ pc' = [pc EXCEPT ![t] = "decommit"]
  /\ UNCHANGED <<os, large, small, peak, highest, live, want, ptr, cur_usage, pu>>

(* Mutation: the first page only.                                          *)
DecommitFirst(t) ==
  /\ pc[t] = "decommit"
  /\ \/ writable' = writable \ PagesOf(ptr[t], PageBits)
     \/ MprotectFails /\ UNCHANGED writable
  /\ pc' = [pc EXCEPT ![t] = "lock_dealloc"]
  /\ UNCHANGED <<mapped, registered, large, small, stats, live, want, ptr, cur_usage, pu>>

(* commit_range decommits before it passes the block on. *)
Decommit(t) ==
  /\ pc[t] = "decommit"
  /\ \/ writable' = writable \ PagesOf(ptr[t], want[t])
     \/ MprotectFails /\ UNCHANGED writable
  /\ pc' = [pc EXCEPT ![t] = "lock_dealloc"]
  /\ UNCHANGED <<mapped, registered, large, small, stats, live, want, ptr, cur_usage, pu>>

LargeDeallocate(t) ==
  /\ pc[t] = "lock_dealloc"
  /\ large' = Large!deallocate_block(large, ptr[t], want[t]).trees
  /\ Finish(t)
  /\ UNCHANGED <<os, small, stats, live>>
  /\ InsertsLarge

(* A thread ends.  Nothing empties its small buddy. *)
Exit(t) ==
  /\ t \in Mortal
  /\ pc[t] = "idle"
  /\ pc' = [pc EXCEPT ![t] = "exited"]
  /\ UNCHANGED <<os, large, small, stats, live, want, ptr, cur_usage, pu>>

-----------------------------------------------------------------------------
Busy == {t \in Threads : pc[t] \notin {"idle", "exited"}}

(* MaxLive bounds the blocks that are held or being allocated. *)
Room == Cardinality(live) + Cardinality(Busy) < MaxLive

(* The steps of a call that is under way. *)
Step(t) == \/ LargeAllocate(t) \/ LargeRefill(t) \/ Commit(t)
           \/ StatsAdd(t) \/ PeakLoad(t) \/ PeakExchange(t) \/ Return(t)
           \/ StatsSub(t) \/ Decommit(t) \/ LargeDeallocate(t)

Next == \E t \in Threads :
          \/ \E bits \in Sizes : Room /\ (SmallAllocate(t, bits) \/ Request(t, bits))
          \/ \E blk \in live : SmallDeallocate(t, blk) \/ Release(t, blk)
          \/ Step(t)
          \/ Exit(t)

Spec == Init /\ [][Next]_vars

(* Threads keep running; the lock is fair enough to be granted in the end. *)
FairSpec == Spec /\ \A t \in Threads : WF_vars(Step(t))

-----------------------------------------------------------------------------
TypeOK ==
  /\ mapped \subseteq MmapPages
  /\ writable \subseteq mapped
  /\ registered \subseteq MmapPages
  /\ large \in [Large!BlockBits -> SUBSET Nat]
  /\ small \in [Threads -> [Small!BlockBits -> SUBSET Nat]]
  /\ {usage, peak, highest} \subseteq Nat
  /\ live \subseteq Nat \X Sizes
  /\ pc \in [Threads -> {"idle", "lock_alloc", "commit", "stats_add", "peak_load",
                         "peak_cas", "return", "stats_sub", "decommit",
                         "lock_dealloc", "exited"}]
  /\ want \in [Threads -> 0 .. AddressBits - 1]
  /\ {ptr, cur_usage, pu} \subseteq [Threads -> Nat]

(* Every block together with who has it: a caller, the tree of a thread,   *)
(* the large buddy, or a call that is under way.                           *)
SmallBlocks(t) == Small!FreeBlocks(small[t])

CallBlock(t) == <<ptr[t], BlockBits(want[t])>>

Working == {t \in Busy : ptr[t] # nullptr}

Owned == {<<"caller", blk>> : blk \in live}
         \cup (UNION {{<<"small", t, blk>> : blk \in SmallBlocks(t)} : t \in Threads})
         \cup {<<"large", blk>> : blk \in Large!FreeBlocks(large)}
         \cup {<<"call", t, CallBlock(t)>> : t \in Working}

OwnedSpan(own) == Small!BlockSpan(own[Len(own)])

(* No address has two owners: whatever the threads interleave, a block is  *)
(* never free and held, free in two trees, or handed out twice.            *)
OneOwner == \A a, b \in Owned : a # b => OwnedSpan(a) \cap OwnedSpan(b) = {}

(* Every mapped page is accounted for: a call that fails, a thread that    *)
(* exits or a block that is freed by another thread loses no memory.       *)
NothingLost ==
  UNION {OwnedSpan(own) : own \in Owned}
    = {a \in 0 .. 2 ^ AddressBits - 1 : a \div PageSize \in mapped}

(* What a caller holds, and the free blocks of the small buddies (whose    *)
(* tree nodes are inside the blocks), can be written to.                   *)
HeldIsWritable ==
  \A blk \in live \cup UNION {SmallBlocks(t) : t \in Threads} :
    PagesOf(blk[1], blk[2]) \subseteq writable

(* Free memory in the large buddy has been given back to the operating     *)
(* system, and its nodes live in committed entries of the pagemap.         *)
LargeIsDecommitted ==
  \A blk \in Large!FreeBlocks(large) :
    /\ PagesOf(blk[1], blk[2]) \cap writable = {}
    /\ blk[1] \div PageSize \in registered

(* current_usage is the number of addresses that are owned above           *)
(* stats_range: by callers, by small buddies, and by the calls whose block *)
(* stats_range has counted and not yet taken off again.                    *)
Counted ==
  {own \in Owned :
     \/ own[1] \in {"caller", "small"}
     \/ own[1] = "call" /\ pc[own[2]] \notin {"commit", "stats_add", "decommit", "lock_dealloc"}}

UsageExact == usage = Cardinality(UNION {OwnedSpan(own) : own \in Counted})

(* Once no thread is updating it, peak_usage is the greatest value that    *)
(* current_usage has ever had: no interleaving of loads and exchanges      *)
(* loses a maximum.                                                        *)
PeakCatchesUp ==
  (\A t \in Threads : pc[t] \notin {"peak_load", "peak_cas"}) => peak = highest

(* The statistics never drift, whatever the threads interleave. *)
StatsExact == UsageExact /\ PeakCatchesUp

(* When everything has been freed, the only memory that has not gone back  *)
(* are pages whose parts were freed by different threads, none of which    *)
(* can merge them.                                                         *)
RetainedPagesAreSplit ==
  live = {} /\ Busy = {} =>
    \A t \in Threads : \A blk \in SmallBlocks(t) :
      \E other \in Threads \ {t} : \E rest \in SmallBlocks(other) :
        rest[1] \div PageSize = blk[1] \div PageSize

(* The pipeline as a whole keeps the promise of an allocator.              *)
Abstract == INSTANCE Allocator
ImplementsAllocator == Abstract!Spec

(* Every call returns: no update of the peak is retried forever.           *)
CallsReturn == \A t \in Threads : t \in Busy ~> t \notin Busy

(* What a caller holds stays mapped.                                       *)
HeldIsMapped == \A blk \in live : PagesOf(blk[1], blk[2]) \subseteq mapped
=============================================================================
