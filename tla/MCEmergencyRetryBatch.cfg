SPECIFICATION Spec
CONSTANTS
    Receipts = {r1, r2}
    TimerIds = {t1, t2, t3, t4, t5}
    RequestedExpires = {1}
    Interval = 1
    Expire = 2
    MaxAttempts = 1
    Retention = 1
    Batch = 2
    ForeignKeys = TRUE
    LastSend = 0
    MaxTime = 2
    MaxCrashes = 1
    MaxErrors = 0
SYMMETRY Symmetry
INVARIANTS TimersReferenceReceipts AlertKeepsTimer ClaimsHeld
CHECK_DEADLOCK FALSE
