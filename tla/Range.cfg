\* Two threads, one of which may exit; mmap may fail, mprotect does not.
CONSTANTS
  Threads = {t1, t2}
  Mortal = {t2}
  SmallBits = 0
  PageBits = 1
  BitRefill = 2
  AddressBits = 5
  Sizes = {0, 2}
  MmapPages <- MCHighPages
  MprotectFails = FALSE
  AlignedAllocation = FALSE
  MaxLive = 3
SPECIFICATION FairSpec
INVARIANTS OneOwner NothingLost HeldIsWritable LargeIsDecommitted StatsExact RetainedPagesAreSplit
PROPERTIES ImplementsAllocator CallsReturn
