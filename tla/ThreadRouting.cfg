\* Three threads whose ids collide forward messages for each other; one may exit.
CONSTANTS
  Threads = {t1, t2, t3}
  Mortal = {t1}
  Ids <- CollidingIds
  RemoteSlotBits = 1
  Threshold = 2
  Chunks = {k1, k2}
  SlabsPerChunk = 1
  Slots = {o1}
  SmallClasses = {}
  MediumClasses = {medium}
  MaxLive = 2
SPECIFICATION FairSpec
INVARIANTS OnePlace CachedForOthers CacheAccounted
PROPERTIES EveryHopConverges CallsReturn
