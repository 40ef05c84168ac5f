SPECIFICATION FairSpec
CONSTANTS
  Servers = {s1}
  Refs = {nginx, redis}
  Digests = {d1, d2}
  None = None
  MaxReport = 2
  Faults = FALSE
  MaxMoves = 1
  MaxStarts = 2
PROPERTIES
  DeltaIsRecorded
