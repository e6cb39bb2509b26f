CONSTANTS
    Turn = {1, 2}
    Question <- MCQuestion
    Rogue <- MCRogue
    OwnOrders = {"1043"}
    Ruling = {"confirm-required", "agent-only", "refuse-explained"}
    MaxUnread = 1
    Request = {1, 2}
    MaxEvents = 1
SPECIFICATION Spec
CHECK_DEADLOCK FALSE
INVARIANTS
    ShownIsRelayed
    RecordHoldsWhatWasShown
    ServerDecides
    OfferedWithinBoundary
    SettledUnlessOrderChanged
    StoppedByCustomer
PROPERTIES
    EndedReplyStays
    EveryReplyEnds
