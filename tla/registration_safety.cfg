SPECIFICATION Spec
CONSTANTS
    Keys = {k1, k2}
    Octets = {o2, o3}
    Stale = 1
    Forget = 0
    Faults = {"timeout", "error"}
    MaxFaults = 2
    MaxClock = 2
    None = None
SYMMETRY Symmetry
INVARIANTS PoolConsistent NoMisroute InSync PanicNeedsTimeout
PROPERTIES ImplementsPeerService
CHECK_DEADLOCK FALSE
