SPECIFICATION FairSpec
CONSTANTS
    Keys = {k1, k2}
    Addrs = {a1, a2}
    Marks = {m1}
    MaxPeers = 2
    MaxSocks = 3
    MaxListen = 2
    None = None
INVARIANTS ConnTracksPeer ConnIsCurrent
PROPERTIES RemovedIsReleased
CHECK_DEADLOCK FALSE
