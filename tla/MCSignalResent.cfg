SPECIFICATION Spec
CONSTANTS
    Versions = {v1, v2}
    NoFile = NoFile
    Stamps = {0, 1}
    MaxSignals = 3
    MaxFaults = 1
    Kind = "worker"
    Central = TRUE
    SignalWhen = "finished"
    LostReplies = FALSE
PROPERTIES
    DisturbedOnlyWhenCordoned
    NoStatusRegression
