SPECIFICATION Spec
CONSTANTS
    Hosts = {h1}
    Partitions = {p1}
    MaxForce = 0
    MaxReset = 0
    MaxFaults = 2
    None = None
PROPERTIES ClearedWhenRemoved
