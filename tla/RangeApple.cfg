\* pal_apple: the system aligns, and a reservation that fails changes nothing;
\* mprotect may fail, which nobody notices: a program that then writes a node of its own
\* where it cannot has ended.
CONSTANTS
  Threads = {t1, t2}
  Mortal = {}
  SmallBits = 0
  PageBits = 1
  BitRefill = 2
  AddressBits = 4
  Sizes = {0, 3}
  MmapPages <- MCLowPages
  MprotectFails = TRUE
  AlignedAllocation = TRUE
  MaxLive = 2
SPECIFICATION Spec
INVARIANT HeldIsMapped
CHECK_DEADLOCK FALSE
