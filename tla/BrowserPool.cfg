CONSTANTS
  r1 = r1
  r2 = r2
  r3 = r3
  small = small
  large = large
  bad = bad
  NoBuffer = NoBuffer
  Requests = {r1, r2, r3}
  Buffers = {small, large, bad}
  Large = {large, bad}
  Malformed = {bad}
  PoolSize = 1
  MaxWorkers = 2
SPECIFICATION FairSpec
INVARIANTS
  TypeOK
  Exclusive
  RepliesFindTheirCaller
  NoLostRequest
  WorkerAccounted
  QueueIsCurrent
  InitializedHasWorkers
PROPERTIES
  EveryCallEnds
  EndsOrStranded
  ImplementsService
