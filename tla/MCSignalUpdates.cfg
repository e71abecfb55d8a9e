SPECIFICATION FairSpec
CONSTANTS
    Versions = {v1, v2}
    NoFile = NoFile
    Stamps = {0, 1}
    MaxSignals = 2
    MaxFaults = 2
    Kind = "controller+worker"
    Central = FALSE
    SignalWhen = "idle"
    LostReplies = FALSE
INVARIANTS
    NodeTellsTheTruth
PROPERTIES
    RestartIntoNewVersion
    EverySignalEnds
