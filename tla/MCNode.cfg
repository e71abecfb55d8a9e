SPECIFICATION NodeSpec
CONSTANTS
  Ids = {i1, i2}
  Callers = {g1, g2}
  PodManifests = {m1}
  NoManifest = NoManifest
  MaxClaims = 2
  Servers = {s1, s2}
  JoinAddress = s1
  Backends = {"envoy", "traefik"}
  MaxChanges = 2
  MaxFailures = 1
  f1 = f1
  f2 = f2
  x = x
  y = y
  Bundles <- MCBundles
  Images = {x, y}
  Contents <- MCContents
  MaxFileChanges = 3
  MaxTroubles = 1
  Setups <- MCSetups
  HostRules <- MCHostRules
  MaxLaunches = 2
  MaxMishaps = 1
  MaxProbes = 1
  First = c1
  Joiners = {c2}
  Workers = {w}
  Storages = {"etcd", "kine"}
  MaxCrashes = 1
  MaxTokens = 2
CHECK_DEADLOCK FALSE
INVARIANTS
  WorkerFilesAgree
  KeysBelongTogether
PROPERTIES
  KeepsPromises
  NodeKeepsOrder
  WorkerSettles
  NodeComesAndGoes
