SPECIFICATION Spec
CONSTANTS
    Devices = {d1}
    Conns = {c1, c2}
    Senders = {p1, p2}
    PageLimit = 2
    InboxCap = 2
    WireCap = 1
    MaxMessages = 2
    MaxRedeliveries = 0
    MaxFaults = 0
INVARIANTS NoneLost
CHECK_DEADLOCK FALSE
