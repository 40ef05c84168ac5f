SPECIFICATION FairSpec
CONSTANTS
  Servers = {s1, s2}
  Images = {app}
  WithSource = {app}
  PageSize = 1
  MaxVersions = 2
  MaxFaults = 2
INVARIANTS
  TypeOK
  RateLimited
PROPERTIES
  NewestReleaseArrives
