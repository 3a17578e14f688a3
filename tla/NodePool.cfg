CONSTANTS
  r1 = r1
  r2 = r2
  r3 = r3
  small = small
  large = large
  shared = shared
  NoBuffer = NoBuffer
  Requests = {r1, r2, r3}
  Buffers = {small, large, shared}
  Large = {large, shared}
  Shared = {shared}
  Malformed = {large}
  PoolSize = 1
  MaxWorkers = 2
  MaxCrashes = 1
SPECIFICATION FairSpec
INVARIANTS
  NodeWorkerAccounted
  ExactlyOnePool
PROPERTIES
  EveryCallEnds
  EndsOrStranded
  ImplementsService
