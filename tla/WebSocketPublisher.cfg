\* Two clients, a ring of one message that laps a slow client, a limit of one.
CONSTANTS
    Clients = {c1, c2}
    RingCap = 1
    SubscriberLimit = 1
    MaxPublished = 3
SPECIFICATION FairSpec
INVARIANTS
    SubsExact
    InboxInOrder
PROPERTIES
    DeliveredToReaders
    TermEnds
    WaitingAccepted
CHECK_DEADLOCK FALSE
