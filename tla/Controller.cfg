SPECIFICATION FairSpec
CONSTANTS
  Lists = {list}
  Uploads = {upload}
  Enrols = {enrol}
  None = None
  Torn = Torn
  MaxFaults = 2
INVARIANTS
  TypeOK
  SchemaIsWhole
  AgentsKeepTheirAuthority
PROPERTIES
  StoreIsDurable
  ComesBack
  EveryRequestEnds
