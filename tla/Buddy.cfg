\* Any free aligned place may be granted, so that blocks of different refills merge,
\* also to a whole block of 2^BitEnd that goes back.
CONSTANTS
  BitBegin = 1
  BitEnd = 4
  RefillBits = 2
  Chunks <- MCAddressSpace
SPECIFICATION Spec
INVARIANTS TypeOK BlocksDisjoint NothingLost Coalesced BlocksAligned
PROPERTIES RefillOnlyWhenExhausted ImplementsAllocator
