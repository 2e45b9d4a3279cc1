\* One processor, no faults, and a command path that writes controller state
\* without comparing versions.
SPECIFICATION Spec
CONSTANTS
    Objects = {o1}
    Procs = {p1}
    Slots = {s1}
    Nobody = Nobody
    Gone = Gone
    Absent = Absent
    Watched = {}
    DirectlyWritten = {o1}
    MaxConcurrency = 1
    HandlingTime = 1
    MaxWrites = 2
    MaxFaults = 0
    FaultKinds = {}
INVARIANTS
    HistoryIsLinear
