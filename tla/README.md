# cielmalloc in TLA+

A model of the memory allocator in `include/cielmalloc`, checked by TLC on small
instances. The safety of every part, and the refinements, are proved
by TLAPS as well, for any number of threads and every size, address and id.

The repository is in the middle of a move. The *ranges* (a pipeline of layers
between the operating system and the callers) are new, compiled and tested
(`test/CMakeLists.txt` builds `bits.cpp`, `buddy.cpp` and `range.cpp`). The
*thread allocator* with its slabs, pool and global allocator is the older upper half:
it is complete and its tests are in the tree, but it calls `global_pagemap` and
`pal::reserve<true>`, which the ranges have replaced, and is not built at
the moment. Both are modelled; for the upper half those two names are treated as external,
with the meaning its code gives them (a map from chunks to slab kinds, fresh
chunks of reserved memory, which is committed). The data structures of the `ciel` library (lock, queue,
stacks, tree) are external too and are represented by what they linearize to.

## Inventory

| part | state | operations | with whom | what is hard | what makes it correct |
|---|---|---|---|---|---|
| `buddy.hpp` | one tree of free blocks per size | `allocate_block`, `deallocate_block`, refill | called by both buddy ranges | any order of sizes and frees; bit arithmetic on addresses | blocks disjoint, nothing lost, always merged, refill only if needed |
| `small_buddy_range` | a thread-local buddy below a page | `alloc_range`, `dealloc_range` | base: the pipeline | blocks freed by other threads, threads that exit | no block in two trees |
| `stats_range` | two atomics | add, raise the peak, subtract | base | races of the peak loop | exact usage, true peak |
| `commit_range` | page protections | commit, decommit | base, `pal` | decommit before release | held memory writable, free memory returned |
| `pal` (linux, apple) | protections, contents, `errno` | `reserve_aligned`, `commit`, `commit_readonly`, `decommit`, `zero` | the OS | calls that fail or are to be repeated | zeros are zeros, `errno` kept, calls return |
| `lock_range`, `large_buddy_range` | one static buddy | as the small one, under the lock | page map, `reserve_range` | refills larger than its granularity | as the buddy |
| `pagemap` | one entry per granule of the address space | `register_range`, `get`, `set`, `get_page_ptr` | large buddy's nodes live in it | entries used before they are committed, entries across pages | registered entries writable, the map sparse, no access faults |
| `thread_allocator` | lists of slabs, headquarters, remote cache | `allocate`, `deallocate`, exit | queues of other threads, pool | messages forwarded by way of others; exit and reuse | every object in one place, slabs listed iff available, hops converge, calls return |
| `remote_allocator` | message queue; links and a packed word in freed objects | `insert`, `clear`, push, process | threads | a list is walked while its nodes go to others | lists stay apart and in order, posts end |
| `pool` | stacks of released objects and of slabs with room | `acquire`, `release` | threads | a slab is in no stack while it is cut | no object or slab lost or shared, few slabs open |
| `small_slab`, `medium_slab`, `list` | lists and stacks of free objects, in the slab's own memory | `init`, `allocate`, `deallocate` | their owner thread | any order of frees; callers overwrite links | objects apart, the right slab found, listed iff available |
| `global_allocator` | a lock-free stack per power of two | `allocate`, `deallocate` | page map, `pal` | decommit and reuse by other threads | blocks big enough, undisturbed, reused before more is reserved |
| `sizeclass`, `bits`, `interface.hpp`, `malloc.cpp` | none | conversions, entry points | all | boundaries, 0, narrow counters | the smallest size that fits, slabs filled |

`log_range` and `aal` keep no state, `config.hpp` has the constants.
`PROJECT.json` has the same list with a status for each part, and the hazards
at their lines.

## Modules

```
Allocator                      what every layer promises to its caller
BuddyOps -- Buddy -- MCBuddy   the buddy's algorithms; one buddy and its callers
   |          \-- BuddyProofs             (extends DataLemmas)
   \-- (twice) Range -- MCRange            the pipeline, two threads
                  \-- RangeProofs         (uses BuddyProofs twice)

ThreadAllocator -- MCThreadAllocator       slabs, messages, exit
   \-- ThreadAllocatorProofs
Sizeclass                                  from a size to a class
   |-- MediumSlab --\
   |-- SmallSlab ----+-- implement Slab    what a slab promises to its owner
   |  RemoteList ------- implements RemoteCache    its remote cache, in memory
   |      \-- (all three) ThreadParts -- MCThreadParts
   |                           \-- ThreadPartsProofs   (extends SizeclassProofs)
   |-- GlobalAllocator                     large blocks
   |  Pool                                 where remote_allocators come from
   |      \-- (both) SharedParts -- MCSharedParts
   |-- Interface                           the entry points
      Pagemap, Pal                         what the pipeline stands on, in detail
          \-- (all three) SystemParts -- MCSystemParts
CacheSlots                                 the slots of a remote cache, used by
                                           ThreadAllocator, RemoteCache, RemoteList

DataLemmas                                 powers of two, division, sequences, lists
   |-- SizeclassProofs                     the arithmetic of size classes
   |      |-- ThreadPartsProofs            MediumSlab, SmallSlab, RemoteList
   |      \-- SystemPartsProofs            Interface, Pagemap, Pal
   |-- SharedPartsProofs                   Pool, GlobalAllocator
   \-- all other modules of proofs
```

**Allocator** has one variable, the set `live` of blocks `<<address, bits>>` callers
hold. A block is handed out only if it is aligned, not `nullptr` and disjoint
from all that are held; a block is freed only if it is held. `Buddy` and `Range`
are shown to implement it (`ImplementsAllocator`); the mapping is the
identity on `live`, the rest of their state is hidden.

**BuddyOps** is the class `buddy`, as operators on a function from size bits to sets of
base addresses. `extract_min` and the ordered tree become `Min` of a set. The loop
of `deallocate_block` is not written as a recursion: after merging up to size *i*
the node is always the original address with its low *i* bits cleared
(`MergedNode`), so the loop stops at the least size in `StopSizes`. That keeps
the module free of RECURSIVE definitions, so that it can be proved about.
**Buddy** adds the callers and the upper range: `Allocate` (a tree can serve the
request), `AllocateRefill` (the callback), `Deallocate`.

**Range** is the pipe of `test/src/range.cpp:25-26`. A thread's `pc` names the layer it is
in; the layers between the thread-local buddy and the lock take one
step per access to shared memory (an `mprotect`, an atomic operation), and
what runs inside `lock_range` is one step. The two buddies are instances
of `BuddyOps`. `mmap` returns any free place among `MmapPages` or fails; `reserve_aligned` is modelled with its
trimming, including what it does after a failure. `AlignedAllocation` selects `pal_apple`, where `mach_vm_map` aligns and a failure is returned.
`MprotectFails` lets `mprotect` fail, which the code does not notice. The program then ends at the first insertion
that writes a node where it cannot: `InsertsLarge` (nodes of the large buddy are page map entries, which may not have been
committed) and `InsertsSmall` (nodes of a small buddy are in the free memory itself) make such a step impossible. `UsageExact` compares `current_usage` with the number of addresses
that callers, small buddies and calls own above `stats_range`. `highest` is a history variable, for the part of `StatsExact` about the peak.

**ThreadAllocator** is `thread_allocator` with its remote cache, message queues and
slabs. A call is `Call`, `Process` for each message, perhaps a post, then the body
(`Allocate`, `DeallocateOwn`, `DeallocateRemote`, `UseLarge`). `post` is
one `PostPush` per pushed list, one `PostRebucket` per level of slots, and `PostDone`; `Bucket` (in **CacheSlots**)
is what the inner loop of `post` leaves in one slot, a function on the positions of the list.
Ids are natural numbers, as the addresses in the code, with `RemoteSlotBits`
per level. Sizes in the cache are counted in objects. Which of a slab's free
objects is on top is a choice, since no property depends on the order. `process` of
the `ciel` queue may stop early, as a queue does that meets a push which is under way.
`orphaned` is a history variable: the slabs that were listed when their thread
exited.

**Sizeclass** has the arithmetic of `bits.hpp` and the tables of `sizeclass.hpp`, as functions
on numbers that wrap at `Bits` (and at 8 and 16 bits where the code narrows them).
**Interface** is a call of `malloc` at one of the two entry points, up to the pool or
stack that serves it; the reference for the bit arithmetic is the definition of what it is for:
the least size offered that is not below the request (`SmallestFit`). The widths are constants.
`SizesFit` says how they have to be ordered; `CountersFit` says that classes fit in 8 bits and numbers of slots
in the 16 and 8 bits the code gives them (`sizeclass.hpp:20` asserts the former for each size). `WasteBounded`
is stated for any number m of mantissa bits: less than one part in 2^m + 1, a fifth for the code's two.

**Slab** is a set of free objects, as `ThreadAllocator` sees a slab.
**MediumSlab** has the stack of offsets, including what is left in its unused places, the header, and
the pages that are committed. **SmallSlab** has the meta_slabs of a chunk and memory, one word per
address: the lists of free objects run through it, and callers write to what they
hold (`Write`). Both implement `Slab`: the mapping reads the free set off the stack or off the list.

**Pool** and **GlobalAllocator** are shared by threads; a step is one access to a shared
stack, to the page map or to page protections, and stacks are the sequences they linearize
to. `peak` is a history variable for `ReusedBeforeReserved`.

**RemoteCache** is a thread's cache as lists of messages, one per slot, as in `ThreadAllocator`.
**RemoteList** has it as memory: the link and the word of each object, the
dummy and the last node of each list. `TakeOwn` empties the thread's own slot and `Distribute` moves
one node, as the inner loop of `post` does. It implements `RemoteCache`: nodes that the walk has not
reached count as distributed already, in the order in which they will be (`Lists`). `out` is what has just been pushed.

**Pagemap** is the map over a small address space, with pages of the map's own memory; `registered`
and `ref` are history variables. **Pal** is one block of memory under `commit`,
`commit_readonly`, `decommit` and `zero` of either system, one step per system call (`mmap`, `mprotect`, `madvise`), each of which may
fail; the kernel may take what has been advised away at any time (`Discard`). `failed` is a history variable: the steps of
the last call that have failed. A `bzero` of memory that cannot be accessed ends the program (`Faulted`, `Terminating`). What
the code promises when a system call fails is not much, and `FailuresContained` says how much: `ZerosAreZero` except
for `pal_linux::zero` when its `MADV_DONTNEED` fails; `FaultsAtLast`; and `ErrnoKept`, which exempts the
calls without a `keep_errno` (`commit` and `commit_readonly` of `pal_posix`, `decommit` of `pal_apple`, `zero` of `pal_linux`) when an
`mprotect` or `madvise` of theirs has failed.

**ThreadParts**, **SharedParts** and **SystemParts** each put side by side two or three of these that are of one
kind (of one thread, of all threads, at the borders) and share no variable. In a behaviour of
such a module one part takes all the steps (`part` says which) and the others stay in an initial state, so nothing is
shown about interactions of these parts, which they do not have there: the interactions are those of `ThreadAllocator`,
which uses what `Slab` and `RemoteCache` promise, and of `Range`. Their properties are the parts' own, for
the part that steps, and they make the parts' assumptions on constants (`PartsConstants`,
`LargeConstants`, `MapConstants`).

Operators with the comment *Mutation* are plausible bugs. They are used by no
specification; each one, put in place of the definition after it, breaks a property
of a run, which shows that the property depends on that code (`mutants` in
`PROJECT.json`).

## What the runs check

| run | instance | question | result |
|---|---|---|---|
| `buddy` | sizes 2 to 16 in 32 addresses, refills of 4 or more at any aligned place | disjoint, conserved, merged, refills justified, implements Allocator | holds (303 696 states) |
| `range` | 2 threads, one may exit, blocks of 1 and 4, pages of 2, refill of 2 pages, failing `mmap`, 3 blocks | ownership, conservation, protection, statistics, every call returns, implements Allocator | holds (107 059) |
| `range_apple` | `pal_apple`, 2 threads, blocks of 1 and 8, mappings at low pages, `mmap` and `mprotect` may fail | held memory stays mapped | holds (184 361) |
| `range_commit_ignored` | 1 thread, requests of a page, `mprotect` may fail | held memory is writable | **violated** |
| `range_reserve_failed` | 1 thread, `mmap` may fail and use low pages | held memory stays mapped | **violated** |
| `thread_routing` | 3 threads, ids 1, 3, 5, one bit per slot, threshold 2, one may exit | one place per object, cache, converging hops, every call and exit ends | holds (270 449) |
| `thread_exit` | 2 threads that exit and start again, small and medium slabs, 2 slabs in a chunk | one place per object, slabs listed iff available | holds (490 798, up to symmetry) |
| `thread_parts` | medium classes with 3, 2, 1 and 1 objects in 16 pages; small ones of 3, 4 and 6 units in slabs of 8; 3 messages to ids 2, 3, 5 by thread 1 | objects apart, lists agree with the free objects, nothing in use decommitted, posts end, implements Slab and RemoteCache | holds (42 618) |
| `shared_parts` | 3 threads; slabs of 3 objects and a rest; blocks of 4 and 8 pages, 3 at a time | one place, few open slabs, blocks big enough, links committed, undisturbed, reused first | holds (1 379 256, up to symmetry) |
| `system_parts` | the real thresholds with pages of 16 KB, sizes at and around every class and power of two; 8 granules with entries of 3, 4 and 6 bytes, lazily committed or not; both systems, any system call may fail | smallest fit, waste, lists and stacks exist, slabs filled; the map's entries committed, no fault; zeros, `errno`, faults, calls return | holds (36 408) |
| `medium_recommit` | a medium slab | held memory is committed | **violated** |
| `malloc_zero` | `malloc.cpp` | size 0 is in the first class | **violated** |

**Bounds.** Sizes are logarithms, so two or three of them already give every case of dividing
(a donor of the same size, larger, none) and merging (not at all, once, up to the end).
Refills smaller than the largest tree, at any aligned place, let
blocks of different refills become neighbours; in `buddy` four refills make up one block of the largest size, which goes
back to the upper range. In `Range` a page is two of the smallest
blocks, so a page can be split between two threads; a refill is two pages, so
that a page is split off; a block of 4 makes commits of two pages, one of 8 (in `range_apple`) a refill larger
than the granularity. `MaxLive`
bounds blocks held and calls under way. Three ids that share slot 1 at the first level, two of
which share slot 0 at the next, are the least with which a thread
pushes a list with two different targets and a post rebuckets twice. `MaxLive = 2` in that run
bounds the objects that are held or on their way, the number it takes to fill the cache to the threshold
of 2; it is 3 in `thread_exit`, where a slab and the headquarters are used up in turn. `Room` in both modules keeps a chunk for every allocation
under way, since what the upper half does without memory is not handled by its code.
`Range.cfg` places mappings at page 4 and above (`MCHighPages`), where a real
`mmap` places them far from the low address a failed reservation unmaps; `range_apple` and
`range_reserve_failed` use the pages below, with opposite results.

In the slabs, sizes are chosen that do not divide a slab, so that there is a rest at its end, and
classes with one object, where a slab is drained and available in turn. `Interface` has the program's own
thresholds, where TLC's integers (31 bits) cut the large classes at 2^28, and every size at which
a class or a power of two begins or ends; the slabs and the global allocator use the same arithmetic with small thresholds. The pages of 16 KB are those
of `pal_apple` on ARM, the harder case for `MediumIsWholePages`. Entries of the page map
are smaller than a page, as large and larger, and 3 and 6 bytes do not divide one.
The ids 2, 3 and 5 share no, one and two low bits with the thread's, 1: a message is pushed at once, after
one distribution, or after two. Three threads let two of them miss the slab or the block the third has in
its hands. The pool's and the global allocator's `Room` keep a
slab or a block for every call under way, since a failed reservation is not handled there.

**Symmetry** is used in `thread_exit` (threads, chunks, objects of a slab) and `shared_parts` (threads), where
nothing distinguishes them and no property is about liveness.

**Fairness.** `FairSpec` is weak fairness of `Step(t)` for each thread: a thread that is in a
call keeps running, and gets the lock in the end (`combining_lock` is external, and assumed not to starve its
waiters). In `PartsSpec` and `SystemSpec` it is weak fairness of a step of the one thread there is, while it is in a `post`
(`RemoteStep`) or a call of the pal (`PalStep`); there `AdviseAgain` (EAGAIN) is left out of it, so the kernel must some time answer otherwise.
`CallsReturn` of the pal means that every call returns or faults.
Nothing makes a thread call again or exit, so no
property says that a message is ever processed: a message in the queue of a thread that
makes no more calls stays there, in the code as in the model.

Deadlock is checked in all runs but `range_apple` and `range_commit_ignored`, where `mprotect` may fail and the
program may really stop: at an insertion that faults. In `system_parts` a fault is the state `Faulted`, in which only `Terminating` is
possible.

## Findings

1. `range_commit_ignored`. `pal_posix::commit` ignores the result of `mprotect` and
   returns true (`pal/posix.hpp:89`, `:95`). The rollback in `commit_range.hpp:24-27`
   is dead, and a caller who asks for a page or more can be given memory it cannot write to, where
   `test/src/range.cpp:34-35` expects to be able to write to every non-null result. (For a smaller request the small
   buddy divides the page and faults itself, at the first node it writes into it.)
2. `range_reserve_failed`. `pal_posix::reserve_aligned` does not look at the result of
   `reserve` (`pal/posix.hpp:65`). With `p = nullptr` it unmaps
   `[size, 2 * size - page_size)` and returns `nullptr`, where `buddy.hpp:98` counts on a
   refill that just fails. In the counterexample a caller holds the memory that is unmapped.
3. `malloc_zero`. `malloc.cpp:8` passes size 0 on, and `size - 1` wraps: the class is that of
   the largest sizes, and the large allocator runs into the assertion of `bits.hpp:34`.
   `interface.hpp:11-12` corrects the size ("Include size 0 in the first sizeclass").
4. `medium_recommit`. `medium_slab.hpp:106` decommits a freed object; `allocate` hands it out again
   as it is, where `test/src/medium_alloc.cpp:53-55` writes to every object.

The same as in 4 can be read off `global_allocator.hpp:49` for a large block that is popped from its stack, where
`test/src/large_alloc.cpp:24-25` writes to every block; no run is spent on it.

## Proofs

TLC's runs are small instances. The theorems below hold for every value of the constants that satisfies the
assumptions named in the modules; they are stated about the same specifications and properties
as the runs. Each module has an inductive invariant, the lemma that every action keeps it, and the theorems that
follow.

| module | theorem | states |
|---|---|---|
| `BuddyProofs` | `Inductive`, `TypeCorrect` | `IInv`, `TypeOK` |
| | `Disjointness`, `Conservation`, `Alignment`, `FullyMerged` | `BlocksDisjoint`, `NothingLost`, `BlocksAligned`, `Coalesced` |
| | `RefillsJustified` | `RefillOnlyWhenExhausted` |
| | `Refinement` | `ImplementsAllocator` |
| `RangeProofs` | `BaseHolds`, `TypeCorrect` | the inductive invariant `Base`, `TypeOK` |
| | `OneOwnerHolds`, `NothingLostHolds`, `HeldIsMappedHolds` | `OneOwner`, `NothingLost`, `HeldIsMapped` |
| | `HeldIsWritableHolds`, `LargeIsDecommittedHolds` | `HeldIsWritable`, `LargeIsDecommitted` |
| | `StatsExactHolds`, `RetainedPagesAreSplitHolds` | `StatsExact`, `RetainedPagesAreSplit` |
| | `ImplementsAllocatorHolds` | `ImplementsAllocator` |
| `ThreadAllocatorProofs` | `Inductive`, `TypeCorrect` | `IInv`, `TypeOK` |
| | `OnePlaceAlways`, `ListedIffAvailableAlways` | `OnePlace`, `ListedIffAvailable` |
| | `CachedForOthersAlways`, `CacheAccountedAlways`, `EveryHopConvergesAlways` | `CachedForOthers`, `CacheAccounted`, `EveryHopConverges` |
| `ThreadPartsProofs` | `PartsInvariant` | `PartsIInv`, the invariants of both slabs and of the lists |
| | `ThreadObjectsApart`, `ThreadListsAgree`, `ThreadHeldUndisturbed` | `ObjectsApart`, `ListsAgree`, `HeldUndisturbed` |
| | `ThreadImplementsSlab`, `ThreadImplementsCache` | `ImplementsSlab`, `ImplementsCache` |
| `SharedPartsProofs` | `PoolInductive`, `SharedInductive` | the invariants of pool and large blocks |
| | `NobodySharesAlways`, `SlabsAccountedAlways`, `MemorySoundAlways` | `NobodyShares`, `SlabsAccounted`, `MemorySound` |
| | `ReusedBeforeReservedAlways`, `HeldUndisturbedAlways` | `ReusedBeforeReserved`, `HeldUndisturbed` |
| `SystemPartsProofs` | `Inductive` | what holds of the last answer, the page map and the pal |
| | `SmallestFitAlways`, `WasteBoundedAlways`, `TablesSoundAlways` | `SmallestFit`, `WasteBounded`, `TablesSound` |
| | `MapSoundAlways`, `FailuresContainedAlways` | `MapSound`, `FailuresContained` |

`DataLemmas` and `SizeclassProofs` hold lemmas only.

### What is assumed

Most assumptions on constants only give them types. The others are:

* The sizes are in the order the code needs (`BuddyBits`, `BuddyRefill`, `RangeSizes`, `SizesFit`), and the narrow
  counters hold what they have to (`CountersFit`, `AddressBits <= 2 ^ 8`). The code's own values satisfy all of
  them (`system_parts` evaluates them).
* A slab of the pool has room for two objects, and a slab of the thread allocator for one (`Slots # {}`).
* `MediumSlabConstants` and `SmallSlabConstants` give their parts' sizes and counters in the same way. `RemoteListConstants`: an id fits in the low
  `SizeclassShift` bits of a word and a class in the 8 bits of its `uint8_t` and in the rest of the word, as
  `remote_allocator.hpp` packs them; objects are not `nullptr`; no id is the thread's own.
* Sets that the code makes finite are finite: `Threads` of the pool, large blocks and `system_parts`, `Ids`, `Slots`
  and `Objects` of `RemoteList`.
  `"none"`, which stands for no class, is not a class.
* `FailuresUnmapNothing`, a hypothesis of the theorems on `Range`: either reservations are those of
  `pal_apple`, or `mmap` places nothing where a failed `reserve_aligned` unmaps. Without it they
  are false, as finding 2 shows. It is true of the instances `range` and `range_apple`, and false of
  `range_reserve_failed`.
* `~MprotectFails`, a hypothesis of `HeldIsWritableHolds` and `LargeIsDecommittedHolds` (finding 1).

The models' bounds (`MaxLive`, `MaxHeld`, `MaxBlocks`, `MaxSlabs`, `Room`) are arbitrary numbers in the proofs.

### The buddy

The inductive invariant is the conjunction of the five invariants. None is inductive alone: that a merged block is
disjoint from all others needs that the halves it was merged from were aligned and covered
exactly its addresses; that a freed block leaves no mergeable pair needs that
its halves were not both in a tree below the stop size, and that a divided block
brings no pair needs that none of its parts was free. The argument follows the
code: `deallocate_block` replaces the freed block and the halves found on
the way by one block with the same addresses (`Rejoined`), and `divide_block` the reverse (`Splits`). These two
are stated for any trees, so that the pipeline can use them too.

A refill is justified because of merging (`MergedIsLargest`): if several free blocks made up an aligned block of the requested
size, the other half of the smallest of them would be free as well, and the two would have been merged.

### The pipeline

`Base` says what makes a step of the pipeline an exchange of *owners*. An owner is a caller, a thread's small buddy,
the large buddy or a call under way, with a block; `Memory` says that the owners' blocks are apart and that their
addresses are exactly those of the mapped pages. Every step replaces some owners by others of the same addresses:
a division or a merge by `Splits` and `Rejoined`, a move between layers by the same block, a
refill by addresses that have just been mapped (`Reserved`, from the arithmetic of `reserve_aligned`). So one lemma
(`TradeKeeps`) serves all the steps. `Placed` (aligned and merged) and `Exhausted` (a thread asks for a page only if its own tree has
nothing) are what the lemmas on buddies need, `Control` ties a call's block to the layer it is in.

Writable memory and the statistics are added on top, each by an invariant about the owners above one layer:
`Guarded` (the writable pages are those above `commit_range`), `Usage` (the number of addresses above `stats_range`) and
`Peaks` (the highest value is in `peak_usage`, or with a thread whose loop has not ended). They are proved by
steps that need `Base`: a block that passes the layer is apart from all that is above it.

`RetainedPagesAreSplit` follows from `Memory` and `Placed`: with no callers and no calls, every address of a mapped page
is in a small or the large buddy, the large one has whole pages, and a small tree with all of a page
would not be merged.

`ImplementsAllocatorHolds` maps the step that returns a block (or `SmallAllocate`) to `Allocate`, `SmallDeallocate` and `Release` to
`Deallocate`, all others to stutters.

### The thread allocator

`IInv` has eleven parts. `Placed` is `OnePlace` said so that a step can be followed object by object: an object of
a slab in use is held, free, cached, queued or in a call, in exactly one such place, and an object of an
unused slab in none. It is not inductive alone. An object that is freed goes back to the right
slab only if queued messages are on the way to the owner of their object (`QueuedForOwner`) and cached ones
are for others, in the slot where a post looks (`CachedForOthers`). A slab that is made has no objects elsewhere
only if unused slabs come after the used ones (`SlabsOwned`). A released id must not carry messages of a
thread that is gone (`CacheEmptied`), and the slabs that go with it must be known (`IdsApart`, `LeftBehind`,
`ListedIffAvailable`). `CacheAccounted` and `Control` say what the locals of a post mean.

`EveryHopConverges` follows for a single step: a list that is pushed from a slot at some level has targets
that agree with its first one in all bits up to that level, and the sender does not agree with them.

### Pool and large blocks

Each is proved by itself, then `SharedSpec` for both. The pool's
invariant says where a slab with room is (`SlabsPlaced`) and that the objects that exist are those that have been
cut from slabs (`ObjectsPlaced`, `CutWhole`); `FewOpenSlabs` counts them, one per thread at most. For large blocks `Places` and `Placed` say
that a block is with a caller, in one call or once on one stack, `BlocksApart` that two blocks share no page. So a
decommit, which leaves out the block's first page, touches neither another block nor a link (`FirstPages`). `HeldKnown` and `StackedKnown` tie the
page map to the blocks; without them a block could be pushed on the stack of another class. `Peaks` counts
the threads that are about to reserve together with the blocks that exist.

### Sizes, page map and pal

The classes of sizes are proved right by their bounds: `Bound(c)` is the greatest size of class c - 1, written
with products of powers of two, and `Grain` the distance to the next. `from_exp_mant(c)` is shown to be `Bound(c + 1)`,
`to_exp_mant` to give the class whose bounds include the size, and `SmallestFit` and `WasteBounded` follow from the order of the bounds.
`TablesSound` needs where the thresholds are among the classes (`Thresholds`).
The page map's invariant is that exactly the pages of registered entries are committed, and that a read goes to
a registered entry or to one that is committed when touched. The pal's says what each step of a call has
established, or has failed to: `PalPaths` that a call which is to leave zeros has done so when it returns, `PalWays` which ways
to make memory accessible have failed when a call goes on to the next, `PalErrno` what must have failed when
`errno` is not the caller's. No system call is assumed to succeed.

### The slabs and the remote cache

`PartsIInv` is the conjunction of three invariants, one for each part of `ThreadParts`.

For a medium slab, `MediumStack` says that the places of the stack from `top` on hold every offset that is not held, once
each; what is in the other places does not matter. Objects are apart and inside the chunk because an object's
place is the end of the chunk less a multiple of its size, and the first of them still leaves room for the header.

For a small slab, `SmallLists` says that there is a list of distinct nodes through memory from the slab's head to `nullptr`, as long
as its counter of free objects says, whose nodes are the objects of the slab that nobody holds. An allocation takes
the first of it, a free puts one before it, and a write goes to a held object, which is no node. What `SmallSlab` says
with a walk along links (`FreeOf`) follows: such a walk passes exactly these nodes (`SmallFreeOf`).

For the remote cache, `RemoteIs(L, q)` says that the links are those of the lists of objects `L[i]`, from each dummy to
the last node, and of `q`, the rest of the list that post is taking apart, and that no object is in two of
them. A list is only followed up to its last node, so the link of that one is left open: `insert` appends a node which still has a
link into `q`, and the invariant holds all the same. Every step of the code is one on `L` and `q`
(`RemoteEnqueues`, `RemotePushes`, `RemoteTakesOwn`, `RemoteDistributes`). A packed word gives back what was put into it, whatever
it was before (`RemoteWord`).

`ThreadImplementsCache` reads messages off objects and words (`SaidBy`). The messages that wait in slot i are those of
`L[i]` and then those of `q` that belong there (`WaitingIn`), so that a step of post's walk is a stutter: the
first message of `q` goes from the beginning of one part to the end of the other
(`DistributedSame`, from `BucketTail`: what the loop selects from a list is what it selects from its first element and then
from its tail).

Statements about all lengths of a list are proved by a least counterexample (`NatLeast` in `DataLemmas`), where one would
use induction on paper: if a loop or a walk failed at some length, it would fail at a least one.

### Only model-checked

* Liveness, which is beyond the prover: `CallsReturn` of `Range`, `ThreadAllocator` and `Pal`, and `PostEnds`. All other properties of
  passing runs are proved.
* The theorems say nothing of what the models leave out (next section), and the findings are counterexamples, not theorems.

## Not modelled

* Memory orders. The only relaxed atomics are those of `stats_range`; a
  stale load of the peak costs one more failed exchange and changes nothing else.
* The inside of `ciel` structures. In particular `treiber_stack::pop` reads a link in a block that another thread
  may own by then; the models take its operations as atomic.
* `deallocate_slab` and `slab_index` of `small_slab.hpp`, which have no callers and could not
  work with them (one asserts that a meta_slab is aligned to 64 KB), `get_entropy64`, `log_range`, `aal`.
* Memory that debug builds fill before a decommit.
* Running out of memory in the upper half, and sizes above 2^47, which its code does not handle.
* Calls from destructors of other `thread_local` objects after `~thread_allocator`.
* Misuse by the caller (double free, foreign pointers).

## State and what could follow

All modules of the inventory are written, and all safety properties and refinements that the passing runs check are proved.

What could follow: `ThreadAllocator` uses what `Slab` and `RemoteCache` promise, by construction and not by an `INSTANCE`; a
composition in which it is stated as a refinement would need slabs of several threads in one memory. The inside
of `ciel`'s queue and stacks would need models of their own, from that library's source.
