SPECIFICATION FairSpec
CONSTANTS
    InitialQuota = 2
    QuotaBytes = 3
    Price = 1
    Sizes = {1, 2}
    Values = {0, 1}
    Nonces = {n1, n2}
    Versions = {"v4", "v6"}
    Faults = {"loss", "foreign", "reject", "error", "recreate"}
INVARIANTS Conservation
PROPERTIES CreditIsSettled BlockedIsReleased
CHECK_DEADLOCK FALSE
