SPECIFICATION Spec
CONSTANTS
    a = a
    Receipts = {r1}
    Handlers = {h1}
    NoHost = none
    HostOf <- OneHost
    HostConcurrency = 1
    DueLimit = 2
    RetryInterval = 1
    Retention = 2
    MaxCallbacks = 2
    MaxTime = 3
    MaxFaults = 0
    MaxRefusals = 1
INVARIANTS CallbackOnlyForAcknowledged
CHECK_DEADLOCK FALSE
