SPECIFICATION FairSpec
CONSTANTS
    Platforms = {"macos", "linux", "resolvconf"}
    Faults = {"setup", "teardown", "death", "crash", "lapse", "hang"}
    MaxFaults = 2
    None = None
INVARIANTS HostRestored ShownIsTunnelled
PROPERTIES WindowAnswers DeadTunnelReported
CHECK_DEADLOCK FALSE
