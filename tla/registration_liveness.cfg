SPECIFICATION FairSpec
CONSTANTS
    Keys = {k1, k2}
    Octets = {o2}
    Stale = 1
    Forget = 0
    Faults = {"timeout"}
    MaxFaults = 1
    MaxClock = 2
    None = None
PROPERTIES MutexReleased LostPeerReleased IdlePeerReaped
CHECK_DEADLOCK FALSE
