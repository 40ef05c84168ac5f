SPECIFICATION Spec
CONSTANTS
  docker = docker
  ghcr = ghcr
  library = library
  nginx = nginx
  user = user
  app = app
  latest = latest
  v1 = v1
  References <- Spellings
  Hosts = {docker, ghcr}
  HubHosts = {docker}
  Library = library
  Latest = latest
  None = None
  ImageIds = {i1, i2}
  MaxContainers = 3
INVARIANTS
  TypeOK
  FirstContainerCounts
  DigestsAreDockerHubs
CHECK_DEADLOCK FALSE
