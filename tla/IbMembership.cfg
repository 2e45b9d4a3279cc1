SPECIFICATION FairSpec
CONSTANTS
    Hosts = {h1}
    Partitions = {p1, p2}
    MaxForce = 1
    MaxReset = 1
    MaxFaults = 1
    None = None
INVARIANTS TypeOK NoForgottenMembership
PROPERTIES StrayIsRemoved WantedIsBound ReleaseEnds
