SPECIFICATION FairSpec
CONSTANTS
    Devices = {d1}
    Conns = {c1, c2}
    Senders = {p1, p2}
    PageLimit = 1
    InboxCap = 1
    WireCap = 1
    MaxMessages = 2
    MaxRedeliveries = 1
    MaxFaults = 2
INVARIANTS TypeOK ReceivedOnce GapsAreExplained
PROPERTIES EveryMessageArrives
CHECK_DEADLOCK FALSE
