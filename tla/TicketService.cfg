\* An agent and two escalations, with a failing call, to the end of every request.
CONSTANTS
    Agent = {a1}
    Escalator = {e1, e2}
    Conversation = {c1}
    Ticket = {t1, t2}
    MaxRequests = 4
    MaxFaults = 1
SPECIFICATION FairSpec
CHECK_DEADLOCK FALSE
INVARIANTS
    AnsweredAsRecorded
PROPERTIES
    HistorySpec
    EveryCallEnds
