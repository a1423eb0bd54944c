\* malloc.cpp is asked for 0 bytes.
CONSTANTS
  Bits = 12
  AddressBits = 11
  IntermediateBits = 2
  MinAllocBits = 2
  MediumThresholdBits = 6
  LargeThresholdBits = 9
  PageBits = 4
  Entries = {"malloc.cpp"}
  Requests = {0, 1, 2}
SPECIFICATION Spec
INVARIANT ZeroIsServed
