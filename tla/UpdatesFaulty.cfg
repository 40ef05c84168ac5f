SPECIFICATION Spec
CONSTANTS
  Servers = {s1, s2}
  Refs = {nginx}
  Digests = {d1, d2}
  None = None
  MaxReport = 1
  Faults = TRUE
  MaxMoves = 1
  MaxStarts = 2
SYMMETRY Symmetry
INVARIANTS
  TypeOK
  QuietRegistry
  ImageHasRow
PROPERTIES
  RowsOnlyMoveForward
  OnlyFailuresForget
