SPECIFICATION FairSpec
CONSTANTS
    NSessions = 2
    MaxQueue = 2
    RekeyAfter = 2
    RejectAfter = 5
    RekeyAttempt = 2
    RekeyTimeout = 1
    KeepaliveTimeout = 1
    Keepalives = {5}
    MaxLag = 1
    MaxEvents = 3
    LastEvent = 3
    Horizon = 17
    None = None
INVARIANTS QueueAwaitsHandshake KeysRetired SilenceNoticed
PROPERTIES KeysLast NoGap QueueDrains
CHECK_DEADLOCK FALSE
