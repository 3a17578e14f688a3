SPECIFICATION Spec
CONSTANTS
  Base = 8
  MaxElements = 3
  MaxDecodeDepth = 2
  ShortWrite = 4
  ShortRead = 3
  JitShort = 3
  LatinLimit = 2
  MaxWrites = 2
  MaxViews = 2
  MaxResets = 1
  None = None
  Runtimes <- MCRuntimes
  Pairs <- MCPairs
  Fields <- MCFields
  InitialSize <- MCInitialSize
CHECK_DEADLOCK FALSE
INVARIANTS TypeOK DecodersAgree CutRefused TaggedRoundTrip LazyAgrees
PROPERTIES FinishIsTheMessage ViewsKeepTheirBytes
