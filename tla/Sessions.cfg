SPECIFICATION Spec
CONSTANTS
  r1 = r1
  r2 = r2
  s1 = s1
  s2 = s2
  n1 = n1
  n2 = n2
  Requests = {r1, r2}
  Sids = {s1, s2}
  Names = {n1, n2}
  None = None
  TTL = 1
  Faults = TRUE
  MaxClock = 2
SYMMETRY Symmetry
INVARIANTS
  TypeOK
  LogOutEndsSession
  EndedIsRefused
  NeverDroppedEarly
  CookiesMatch
  SetupIsOver
