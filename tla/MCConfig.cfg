SPECIFICATION FairSpec
CONSTANTS
    None = None
    Contents <- MCContents
    InitialContents <- MCInitialContents
    Sources = {"api", "static"}
    EnabledSets <- MCEnabledSets
    FaultSites <- MCFaultSites
    NodeCounts = {1, 11}
    MaxEdits = 2
    MaxTrouble = 1
CHECK_DEADLOCK FALSE
INVARIANTS
    SuccessIsReal
PROPERTIES
    WritesAreOrderly
    ConfigurationSettles
