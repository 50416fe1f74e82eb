SPECIFICATION FairSpec
CONSTANTS
    Keys = {k1}
    Octets = {2}
    Reqs = {r1}
    Passes = {p1, p2}
    h1 = h1
    h2 = h2
    H1 = H1
    Txs = {h1, h2}
    Hashes = {h1, H1, h2}
    Tx <- TxOf
    Paid <- PaidOneTwo
    Durations = {1, 2}
    MinMinutes = 1
    MaxMinutes = 2
    DefaultMinutes = 1
    Routes = {"connect", "renew", "clear"}
    Faults = {"backend", "lost_reply", "reap", "rpc"}
    MaxProof = 2
    MaxClock = 2
    None = None
PROPERTIES RefusalHasCause RedeemOnceAsWritten RequestAnswered TrackedPeerRemoved
CHECK_DEADLOCK FALSE
