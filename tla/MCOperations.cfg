SPECIFICATION OperationsSpec
CONSTANTS
  Requests = {"r1", "r2"}
  Hashed = {"r1"}
  MaxRequests = 3
  MaxFaults = 2
  Hosts = {"c1", "c2"}
  Specs <- MCSpecs
  MaxUpdaters = 2
  MaxReleases = 2
  Setups <- MCSetups
  Targets = {"t1", "t2", "t3"}
  MaxAttempts = 3
  MaxTurnovers = 4
  MaxFailures = 2
  Tables <- MCTables
  Storages = {"etcd", "kine"}
  MaxWrites = 1
  MaxCommands = 4
  MaxHitches = 1
  Descriptors <- MCDescriptors
  Kind <- MCKind
  Match <- MCMatch
  Refers <- MCRefers
  Successors <- MCSuccessors
  References <- MCReferences
  Tags <- MCTags
  MaxBreakdowns = 1
  MaxChanges = 3
  MaxBreaks = 2
  Conns = {k1, k2}
  Backends = {b1, b2}
  MaxSent <- MCSent
  MaxResets = 1
CHECK_DEADLOCK FALSE
INVARIANTS
  AutopilotIsSound
  ResetIsCareful
  NothingIsLost
PROPERTIES
  LatestReleaseIsPlanned
  OperationsSettle
