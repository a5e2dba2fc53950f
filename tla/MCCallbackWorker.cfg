SPECIFICATION FairSpec
CONSTANTS
    a = a
    Receipts = {r1}
    Handlers = {h1}
    NoHost = none
    HostOf <- OneHost
    HostConcurrency = 1
    DueLimit = 2
    RetryInterval = 1
    Retention = 2
    MaxCallbacks = 3
    MaxTime = 2
    MaxFaults = 1
    MaxRefusals = 1
INVARIANTS TypeOK DoneWasAccepted DuplicatesNeedFaults RetryPaced AttemptsLogged
PROPERTIES CallbackSettles
CHECK_DEADLOCK FALSE
