SPECIFICATION Spec
CONSTANTS
  s1 = s1
  s2 = s2
  k1 = k1
  k2 = k2
  Servers = {s1}
  Containers = {1}
  Home <- AllOnOne
  Versions <- OneVersion
  Running <- AllTheSame
  PageSize = 1
  Limit = 1
  Slots = {k1, k2}
  None = None
  MaxPushes = 0
  MaxSnapshots = 1
  MaxFaults = 0
SYMMETRY Symmetry
INVARIANTS
  EntriesAreList
