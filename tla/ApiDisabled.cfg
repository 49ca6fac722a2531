SPECIFICATION ApiServerSpec
CONSTANTS
  NumCouncils = 1
  Envs <- PlainEnvs
  Request = {r1}
  None = None
  Check = {c1}
  Hash = {ha}
  Null = Null
  TestPostcodes = {1}
PROPERTY DisabledNotServed
CHECK_DEADLOCK FALSE
