SPECIFICATION FairSpec
CONSTANTS
    e1 = e1
    e2 = e2
    e3 = e3
    h1 = h1
    h2 = h2
    NoEvent = NoEvent
    Subscription = Subscription
    Events <- MCEvents
    Feeds <- MCFeeds
    Handlers <- MCHandlers
    Passes = {p1}
    MaxRetries = 2
    MaxDeliveries = 4
    MaxDesk = 1
    MaxFaults = 1
CHECK_DEADLOCK FALSE
INVARIANTS
    TypeOK
    AppliedOnce
    PaymentsInvoiced
    NoEarlySuspension
    SuspendedIsLocked
PROPERTIES
    SettledStays
    DunningEnds
