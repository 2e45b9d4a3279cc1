\* Two processors and one object; every fault, deadlines
\* and finalizations as late as can be.
SPECIFICATION Spec
CONSTANTS
    Objects = {o1}
    Procs = {p1, p2}
    Slots = {s1, s2}
    Nobody = Nobody
    Gone = Gone
    Absent = Absent
    Watched = {}
    DirectlyWritten = {}
    MaxConcurrency = 1
    HandlingTime = 1
    MaxWrites = 2
    MaxFaults = 2
    FaultKinds = {"claim", "task", "commitAnswer", "finalize", "finalizeAnswer", "stop", "crash", "late"}
SYMMETRY Symmetry
INVARIANTS
    HistoryIsLinear
PROPERTIES
    ImplementsLinearObjects
