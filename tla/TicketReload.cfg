\* Two agents move a ticket that one escalation opened.
CONSTANTS
    Agent = {a1, a2}
    Escalator = {e1}
    Conversation = {c1}
    Ticket = {t1}
    MaxRequests = 4
    MaxFaults = 0
SPECIFICATION Spec
CHECK_DEADLOCK FALSE
INVARIANTS
    LosersAreTold
