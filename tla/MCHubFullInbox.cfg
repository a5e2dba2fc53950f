SPECIFICATION FairSpec
CONSTANTS
    Devices = {d1}
    Conns = {c1, c2}
    Senders = {p1, p2}
    PageLimit = 2
    InboxCap = 1
    WireCap = 1
    MaxMessages = 2
    MaxRedeliveries = 1
    MaxFaults = 0
PROPERTIES FullInboxIsClosed
CHECK_DEADLOCK FALSE
