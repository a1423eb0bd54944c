\* Three threads; slabs with places for three objects after their fields, and a rest;
\* blocks of 4 and 8 pages in 32, asked for exactly and not.
CONSTANTS
  Threads = {t1, t2, t3}
  slab_size = 9
  allocated_size = 2
  MaxSlabs = 5
  MaxHeld = 5
  Bits = 10
  AddressBits = 5
  IntermediateBits = 0
  MinAllocBits = 0
  MediumThresholdBits = 1
  LargeThresholdBits = 2
  PageBits = 0
  Requests = {4, 5, 8}
  MaxBlocks = 3
SYMMETRY Symmetric
SPECIFICATION SharedSpec
INVARIANTS NobodyShares SlabsAccounted MemorySound ReusedBeforeReserved
PROPERTY HeldUndisturbed
