\* A size_t of six bits: Root and Pair can grow up to it.
CONSTANTS
  SizeMax = 63
  LengthMax = 63
  CompactLengthThreshold = 2
  InitialCapacity = 9
  Types <- MCTypes
  Fields <- MCFields
SPECIFICATION Spec
INVARIANTS InBounds NoLeak LossIsWholeMessages
