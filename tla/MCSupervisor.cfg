SPECIFICATION Spec
CONSTANTS
    None = None
    Garbled = Garbled
    Procs = {p1, p2, p3}
    Pids <- MCPids
    MaxFaults = 1
    MaxCrashes = 1
INVARIANTS
    ProcessIsKnown
PROPERTIES
    ProcessIsKept
