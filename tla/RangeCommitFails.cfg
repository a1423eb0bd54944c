\* pal::commit reports success when mprotect has failed: a request of a page.  A program
\* that then writes a node of its own where it cannot has ended.
CONSTANTS
  Threads = {t1}
  Mortal = {}
  SmallBits = 0
  PageBits = 1
  BitRefill = 2
  AddressBits = 5
  Sizes = {1}
  MmapPages <- MCHighPages
  MprotectFails = TRUE
  AlignedAllocation = FALSE
  MaxLive = 2
SPECIFICATION Spec
INVARIANT HeldIsWritable
CHECK_DEADLOCK FALSE
