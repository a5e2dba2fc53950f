CONSTANTS
    p1 = p1
    p2 = p2
    None = None
    Night = Night
    Partial = Partial
    MaxInFlight = 2
    MaxFaults = 1
    Senders = {p1}
    Apps = {1}
    Limit = 1
    MaxRecipients = 1
    MaxPeriod = 0
    Windows = {None, Night}
    Off = None
    Malformed = Partial
    ForeignKeys = FALSE
    MaxMessages = 2
    EventCap = 2
    PageLimit = 1
    InboxCap = 1
    Sources = 2
    Visits <- LiveVisits
SPECIFICATION Spec
INVARIANTS
    TypeOK
    FlashIsTrue
    OneStream
    DotIsTrue
    StreamInOrder
    LatestOnTop
PROPERTIES
    OverwritesOnlyWhatWasShown
    EventuallySettled
CHECK_DEADLOCK FALSE
