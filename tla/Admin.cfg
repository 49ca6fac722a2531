SPECIFICATION FairAdminServiceSpec
CONSTANTS
  NumCouncils = 2
  Envs <- SwitchEnvs
  Check = {c1, c2}
  Hash = {ha, hb}
  Null = Null
  TestPostcodes = {1, 2}
PROPERTIES EveryChangeReported RunEnds
CHECK_DEADLOCK FALSE
