\* A size_t of five bits and a length field of four, which 26 does not fit: a
\* capacity of 20 doubles to 8, and 26 bytes after a few others do not fit into
\* any block.
CONSTANTS
  SizeMax = 31
  LengthMax = 15
  CompactLengthThreshold = 2
  Capacities = {0, 20}
  Lengths = {0, 3, 26}
  MaxPieces = 4
SPECIFICATION EncoderSpec
INVARIANTS EncoderInBounds FinishReports
