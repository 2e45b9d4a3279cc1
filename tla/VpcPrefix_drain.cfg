\* A batch with two candidates of one linknet each, and two handlers.
SPECIFICATION FairSpec
CONSTANTS
    None = None
    V4 = {1, 2}
    V6 = {}
    Size = 1
    Batches = {b1}
    MaxInterfaces = 1
    MaxAttempts = 2
    MaxDirect = 1
    Handlers = {k1, k2}
INVARIANTS DeleteMeetsNoReference
PROPERTIES ImplementsDrainedResource RequestedDeletionHappens BatchesEnd
CHECK_DEADLOCK FALSE
