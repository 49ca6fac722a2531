SPECIFICATION Spec
CONSTANTS
  r1 = r1  r2 = r2  r3 = r3  p1 = p1  p2 = p2
  Request = {r1, r2, r3}
  Postcode = {p1, p2}
  IpMax = 1
  KeyMax = 2
  CounterMax = 1
  Soft = 1
  Hard = 2
  Window = 2
  Latency = 1
  MaxTime = 3
SYMMETRY RequestSymmetry
INVARIANTS TypeOK LetInWithinLimit RefusalIsEarned CounterEnds
CHECK_DEADLOCK FALSE
