CONSTANTS
    p1 = p1
    p2 = p2
    None = None
    Night = Night
    Partial = Partial
    MaxInFlight = 2
    MaxFaults = 1
    Senders = {p1, p2}
    Apps = {1, 2}
    Limit = 2
    MaxRecipients = 2
    MaxPeriod = 1
    Windows = {None}
    Off = None
    Malformed = Partial
    ForeignKeys = TRUE
    MaxMessages = 3
    EventCap = 1
    PageLimit = 1
    InboxCap = 1
    Sources = 1
    Visits <- QuotaVisits
SPECIFICATION Spec
INVARIANTS
    OvershootBounded
    HeadersNotAhead
    BusyIsBacked
    WaitingUserSeesServer
    ShowsTokenAsked
    ExhaustedIsFinal
CHECK_DEADLOCK FALSE
