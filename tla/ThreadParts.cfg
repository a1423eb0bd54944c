\* Chunks of 32 units, pages of 2, slabs of 8.  Medium objects of 8, 12, 16 and 24,
\* three to one in a chunk; small ones of 3, 4 and 6, two or one in a slab;
\* three objects in the cache.
CONSTANTS
  Bits = 10
  AddressBits = 9
  IntermediateBits = 1
  MinAllocBits = 0
  MediumThresholdBits = 3
  LargeThresholdBits = 5
  PageBits = 1
  MediumInUse = {5, 6, 7, 8}
  SmallInUse = {2, 3, 4}
  Scribbles = {0, 8}
  Objects = {1, 2, 3}
  Ids <- MCIds
  MyId = 1
  RemoteSlotBits = 1
  Classes = {1}
  SizeclassShift = 3
  WordBits = 5
SPECIFICATION PartsSpec
INVARIANTS ObjectsApart ListsAgree
PROPERTIES HeldUndisturbed ImplementsSlab ImplementsCache PostEnds
