SPECIFICATION Spec
CONSTANTS
    Receipts = {r1}
    TimerIds = {t1, t2, t3, t4, t5}
    RequestedExpires = {0, 1}
    Interval = 1
    Expire = 3
    MaxAttempts = 2
    Retention = 2
    Batch = 2
    ForeignKeys = FALSE
    LastSend = 0
    MaxTime = 4
    MaxCrashes = 0
    MaxErrors = 0
PROPERTIES RequestedExpireObeyed
CHECK_DEADLOCK FALSE
