SPECIFICATION WindowSpec
CONSTANTS
    WordSize = 4
    NWords = 2
    MaxCounter = 16
INVARIANTS WindowExact NoReplay
CHECK_DEADLOCK FALSE
