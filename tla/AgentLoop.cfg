SPECIFICATION FairSpec
CONSTANTS
  Servers = {s1}
  None = None
  Polling = TRUE
  Faults = TRUE
  MaxVersions = 2
  MaxScans = 1
  MaxStarts = 2
  MaxLate = 1
INVARIANTS
  TypeOK
  ScansRunOnce
  ScanShowsHost
PROPERTIES
  DashboardConverges
  LostScanIsHarmless
