SPECIFICATION FairElectionSpec
CONSTANTS
    a = a
    b = b
    NoClient = NoClient
    Clients = {a, b}
    MaxEvents = 2
    MaxControls = 3
CHECK_DEADLOCK FALSE
INVARIANTS
    ElectionDiscipline
PROPERTIES
    StatusAlternates
    LeadershipIsLive
