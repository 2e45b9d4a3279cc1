\* An instance on a host with two DPUs and one updater; a reprovisioning, a
\* reset, a forced deletion or the failure of an agent at any time.
SPECIFICATION FairSpec
CONSTANTS
    DPUs = {d1, d2}
    Segments = {g1, g2}
    Updaters = {u1}
    MaxReprovision = 1
    MaxReset = 1
    MaxForce = 1
    MaxFail = 1
    MaxDisturbances = 1
    None = None
INVARIANTS TypeOK ForwardedSegmentsLive FreeHostIsOnAdmin ReferencedSegmentsLive
PROPERTIES SegmentsAreHandedOn UpdateSettles ReleaseCompletes
