\* Three rows, pages of one, a request that fails, and a filter changed under way.
CONSTANTS
    Customer = {"u1", "u2"}
    DefaultLimit = 1
    MaxLimit = 2
    RowId = {1, 2, 3}
    RawQuery <- MCRawQuery
    QueueFilter = {"active", "open"}
    MaxTime = 1
    MaxLag = 1
    MaxOpens = 2
    MaxEvents = 3
SPECIFICATION Spec
CHECK_DEADLOCK FALSE
INVARIANTS
    InOrderOnce
    NothingSkipped
    AskedIsListed
PROPERTIES
    ListEnds
