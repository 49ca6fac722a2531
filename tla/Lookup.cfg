SPECIFICATION FairLookupSpec
CONSTANTS
  NumCouncils = 2
  Envs <- SomeEnvs
  Request = {r1, r2}
  None = None
INVARIANT SourceHonest
PROPERTIES OnlyAvailableCalled PostcodeIsAnswered
CHECK_DEADLOCK FALSE
