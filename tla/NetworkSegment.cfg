\* Two segments that share a name and a VNI, and two handlers.
SPECIFICATION FairSpec
CONSTANTS
    Segments = {s1, s2}
    Names = {n}
    Vnis = {v}
    Instances = {i1}
    Handlers = {h1, h2}
    None = None
INVARIANTS TypeOK PoolAccounts
PROPERTIES ImplementsDrainedResource RequestedDeletionHappens
CHECK_DEADLOCK FALSE
