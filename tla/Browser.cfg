SPECIFICATION FairSpec
CONSTANTS
  l1 = l1
  h1 = h1
  e1 = e1
  Call = {l1, h1, e1}
  Lookup = {l1}
  Health = {h1}
  Eastleigh = {e1}
  None = None
INVARIANTS TypeOK LoneCallIsIsolated IdleHoldsNothingLive NeverWedged
PROPERTY EveryCallReturns
CHECK_DEADLOCK FALSE
