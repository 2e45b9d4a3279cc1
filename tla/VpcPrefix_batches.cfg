\* Two batches of two interfaces over two IPv4 prefixes and one IPv6 prefix.
SPECIFICATION Spec
CONSTANTS
    None = None
    V4 = {1, 2}
    V6 = {3}
    Size = 2
    Batches = {b1, b2}
    MaxInterfaces = 2
    MaxAttempts = 2
    MaxDirect = 1
    Handlers = {}
INVARIANTS TypeOK NoWaitCycle ChosenStaysFree PrimaryFirst
SYMMETRY Symmetry
CHECK_DEADLOCK FALSE
