SPECIFICATION Spec
CONSTANTS
  Servers = {s1}
  Refs = {nginx}
  Digests = {d1, d2}
  None = None
  MaxReport = 1
  Faults = TRUE
  MaxMoves = 1
  MaxStarts = 1
INVARIANTS
  ReportedIsRecorded
