\* One DPU and one reset.
SPECIFICATION Spec
CONSTANTS
    DPUs = {d1}
    Segments = {g1, g2}
    Updaters = {u1}
    MaxReprovision = 0
    MaxReset = 1
    MaxForce = 0
    MaxFail = 0
    MaxDisturbances = 1
    None = None
INVARIANTS NoOrphanSegment
