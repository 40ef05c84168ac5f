SPECIFICATION FairSpec
CONSTANTS
  a1 = a1
  a2 = a2
  t1 = t1
  t2 = t2
  Agents = {a1, a2}
  Tokens = {t1, t2}
  Entitled <- SharedToken
  None = None
  Torn = Torn
  MaxAttempts = 2
INVARIANTS
  TypeOK
  TokenEnrolsOneAgent
  RunningAgentIsKnown
  DiskIsOneEnrollment
PROPERTIES
  TokensAreOneTime
  CompleteAgentComesBack
CHECK_DEADLOCK FALSE
