\* Two threads exit and start again, with remote_allocators of the pool.
CONSTANTS
  Threads = {t1, t2}
  Mortal = {t1, t2}
  Ids = {1, 2}
  RemoteSlotBits = 1
  Threshold = 2
  Chunks = {k1, k2}
  SlabsPerChunk = 2
  Slots = {o1, o2}
  SmallClasses = {small}
  MediumClasses = {medium}
  MaxLive = 3
SYMMETRY Symmetric
SPECIFICATION Spec
INVARIANTS OnePlace ListedIffAvailable
