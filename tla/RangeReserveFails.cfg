\* A reservation that fails unmaps what is at the requested size.
CONSTANTS
  Threads = {t1}
  Mortal = {}
  SmallBits = 0
  PageBits = 1
  BitRefill = 2
  AddressBits = 4
  Sizes = {1, 3}
  MmapPages <- MCLowPages
  MprotectFails = FALSE
  AlignedAllocation = FALSE
  MaxLive = 2
SPECIFICATION Spec
INVARIANT HeldIsMapped
