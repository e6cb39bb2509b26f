\* Two agents and two escalations on the tickets of one conversation.
CONSTANTS
    Agent = {a1, a2}
    Escalator = {e1, e2}
    Conversation = {c1}
    Ticket = {t1, t2}
    MaxRequests = 5
    MaxFaults = 0
SPECIFICATION Spec
SYMMETRY MCSymmetry
CHECK_DEADLOCK FALSE
INVARIANTS
    TypeOK
    CacheAgreesWithEvents
    PointsAtCurrentTicket
    HeldByWhoTookIt
PROPERTIES
    ClosedIsSettled
