SPECIFICATION Spec
CONSTANTS
    Keys = {k1, k2}
    Octets = {2, 3}
    Reqs = {r1, r2}
    Passes = {p1}
    h1 = h1
    h2 = h2
    H1 = H1
    Txs = {h1, h2}
    Hashes = {h1, h2}
    Tx <- TxOf
    Paid <- PaidOneTwo
    Durations = {1}
    MinMinutes = 1
    MaxMinutes = 2
    DefaultMinutes = 1
    Routes = {"connect"}
    Faults = {}
    MaxProof = 1
    MaxClock = 1
    None = None
PROPERTIES RedeemOnce
CHECK_DEADLOCK FALSE
