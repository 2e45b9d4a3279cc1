\* Two processors and one object; deadlines are kept; claims and finalizations
\* fail, processors stop or crash, and a command path writes directly.
SPECIFICATION FairSpec
CONSTANTS
    Objects = {o1}
    Procs = {p1, p2}
    Slots = {s1, s2}
    Nobody = Nobody
    Gone = Gone
    Absent = Absent
    Watched = {o1}
    DirectlyWritten = {o1}
    MaxConcurrency = 1
    HandlingTime = 1
    MaxWrites = 1
    MaxFaults = 1
    FaultKinds = {"claim", "finalize", "stop", "crash"}
INVARIANTS
    TypeOK
    SingleHandler
    FollowUpIsQueued
PROPERTIES
    FinalizeDeletesAll
    RequestsAreSeen
