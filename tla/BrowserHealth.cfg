SPECIFICATION Spec
CONSTANTS
  h1 = h1
  Call = {h1}
  Lookup = {}
  Health = {h1}
  Eastleigh = {}
  None = None
INVARIANT HealthyMeansReached
CHECK_DEADLOCK FALSE
