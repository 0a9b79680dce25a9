SPECIFICATION Spec
CONSTANTS
  proj = proj
  user = user
  key = key
  seed1 = seed1
  seed2 = seed2
  dc = dc
  dc1 = dc1
  dc2 = dc2
  clu1 = clu1
  clu2 = clu2
  LoadBalancer = LoadBalancer
  aws = aws
  byo = byo
  region = region
  NoName = NoName
  Projects = {proj}
  Users = {user}
  SSHKeys = {key}
  Seeds = {seed1, seed2}
  Datacenters = {dc1, dc2}
  Clusters = {clu1, clu2}
  Providers = {aws, byo}
  Regional = {aws}
  Strategies = {LoadBalancer}
  DefaultExposeStrategy = LoadBalancer
  Referential = TRUE
  SeedOf <- MCSeedOf
  NameOf <- MCNameOf
  DatacenterOf <- MCDatacenterOf
  ProjectOf <- MCProjectOf
  OwnersOf <- MCOwnersOf
  AttachedTo <- MCAttachedTo
  CloudsOf <- MCCloudsOf
  RegionOf <- MCRegionOf
  SettingOf <- MCSettingOf
  ExposeOf <- MCExposeOf
INVARIANT
  ProjectsResolve
CHECK_DEADLOCK FALSE
