SPECIFICATION FairSpec
CONSTANTS
    Workers = {w1, w2, w3}
    MaxSets = 2
    None = None
INVARIANTS DeviceStable NoRaceForLock
PROPERTIES SetIsDone ExitStopsAll
CHECK_DEADLOCK FALSE
