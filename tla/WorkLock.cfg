\* Two processes contend for one key with two acquisition attempts; a command
\* buffer of one slot, leases of one tick, statements that wait a tick.
SPECIFICATION FairSpec
CONSTANTS
    Keys = {k1}
    Procs = {p1, p2}
    Ids = {i1, i2}
    NoId = NoId
    CommandBufferSize = 1
    Timeout = 1
    MaxWait = 1
INVARIANTS
    TypeOK
    FenceHoldsRow
    DroppedLockIsReleased
    ReleaseBeforeNextAcquire
PROPERTIES
    FencedWritesInOrder
    ImplementsFencedLease
    OrphanRunsOut
