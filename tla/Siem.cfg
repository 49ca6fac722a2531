SPECIFICATION FairSpec
CONSTANTS
  k1 = k1  s1 = s1  s2 = s2
  Event = {k1, s1, s2}
  Critical = {k1}
  MaxBatchSize = 2
  MaxRetries = 1
  Configs <- MixedConfigs
INVARIANTS TypeOK EventsHeldOnce GaveUpAfterAllAttempts FlagMeansCalls
PROPERTIES DeliveryImplemented OpenIsSettled CriticalIsAlerted
