SPECIFICATION Spec
CONSTANTS
    Keys = {k1}
    Octets = {2}
    Reqs = {r1, r2}
    Passes = {p1}
    h1 = h1
    h2 = h2
    H1 = H1
    Txs = {h1, h2}
    Hashes = {h1, h2}
    Tx <- TxOf
    Paid <- PaidOneTwo
    Durations = {1, 2, 3}
    MinMinutes = 1
    MaxMinutes = 2
    DefaultMinutes = 1
    Routes = {"connect", "renew", "clear"}
    Faults = {"backend", "lost_reply", "reap", "rpc", "restart"}
    MaxProof = 1
    MaxClock = 2
    None = None
INVARIANTS AdmittedIsPaid
PROPERTIES GrantCovered
CHECK_DEADLOCK FALSE
