SPECIFICATION FairSpec
CONSTANTS
  Calls = {c1, c2, c3}
  Data = {d1, d2}
  None = None
CHECK_DEADLOCK FALSE
INVARIANTS TypeOK OrderlyVarintsSurvive
PROPERTIES EveryInitReturns
