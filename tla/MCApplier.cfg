SPECIFICATION FairSpec
CONSTANTS
    None = None
    Stacks = {"a", "b"}
    Objects <- MCObjects
    ClusterScoped = {"crd"}
    Needs <- MCNeeds
    Manifests <- MCManifests
    MaxAttempts = 2
    MaxEdits = 2
    MaxTrouble = 1
CHECK_DEADLOCK FALSE
INVARIANTS
    PruneSparesManifests
PROPERTIES
    StacksConverge
