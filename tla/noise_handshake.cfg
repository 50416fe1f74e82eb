SPECIFICATION Spec
CONSTANTS
    Sides = {a, b}
    NSessions = 2
    IndexSpace = 6
    MaxEph = 5
    MaxData = 1
    MaxClock = 1
    MaxFaults = 1
    None = None
SYMMETRY Symmetry
INVARIANTS SessionsAgree NonceUnique AnsweredOnce UnconfirmedNeedsWrap
CHECK_DEADLOCK FALSE
