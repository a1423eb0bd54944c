\* What a medium object is when it is handed out again.
CONSTANTS
  Bits = 10
  AddressBits = 9
  IntermediateBits = 1
  MinAllocBits = 1
  MediumThresholdBits = 3
  LargeThresholdBits = 6
  PageBits = 2
  InUse = {4, 5, 6, 8}
SPECIFICATION Spec
INVARIANT HeldIsCommitted
