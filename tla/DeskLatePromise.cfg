\* Two confirmations of one proposal decide on different facts.
CONSTANTS
    Request = {r1, r2}
    Proposal = {p1}
    Asked = {p1}
    Order = {o1}
    NoOrder = NoOrder
    ShippingStatus <- MCShippingWay
    ShippingMoves <- MCMovesWay
    RuleSets <- MCBaselineWay
    Sweeper = {}
    BatchLimit = 1
    MaxFaults = 0
SPECIFICATION Spec
INVARIANT
    PromiseKept
CHECK_DEADLOCK FALSE
