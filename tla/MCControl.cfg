SPECIFICATION ControlSpec
CONSTANTS
  Addresses = {a1, a2}
  VirtualIPs <- MCVIPs
  LinkStates <- MCLinks
  MaxFlaps = 2
  MaxHiccups = 1
  ApiSetups <- MCApiSetups
  ControllerCounts = {0, 1, 2}
  MaxCounts = 2
  MaxHitches = 1
  Members = {m1, m2}
  ProfilesOf <- MCProfiles
  MaxVersions <- MCVersions
  MaxUpsets <- MCUpsets
  ChartKinds = {"repo", "secret"}
  MaxConfigs = 2
  MaxTroubles = 1
  Controllers = {c1, c2}
  Duties = {"csr", "endpoints", "roles", "stack", "probe", "telemetry"}
  IPs = {i1, i2}
  MaxTurns = 1
  MaxShifts <- MCShifts
  MaxErrors = 1
  Nil = Nil
  Documents <- MCDocuments
  MaxUpgrades = 1
CHECK_DEADLOCK FALSE
INVARIANTS
  ControlPlaneIsCurrent
  NoReleaseLeftBehind
PROPERTIES
  ChartsSettle
  ProfilesAreServed
  KonnectivityCatchesUp
  DutiesGetDone
