\* The real size classes, with pages of 16 KB, up to sizes TLC's integers hold; a map of
\* 8 granules of 2 bytes, pages of 4, and entries smaller than a page, as large, and larger.
CONSTANTS
  Bits = 30
  AddressBits = 29
  IntermediateBits = 2
  MinAllocBits = 4
  MediumThresholdBits = 16
  LargeThresholdBits = 24
  PageBits = 14
  Entries = {"interface", "malloc.cpp"}
  Requests <- MCAroundBoundaries
  MapPageBits = 2
  GranularityBits = 1
  MapAddressBits = 4
  EntrySizes = {3, 4, 6}
  Body = 8
SPECIFICATION SystemSpec
INVARIANTS SmallestFit WasteBounded TablesSound MapSound FailuresContained
PROPERTY CallsReturn
