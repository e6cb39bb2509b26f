\* A batch of one meets a proposal nobody was ever asked about.
CONSTANTS
    Request = {r1, r2}
    Proposal = {p1, p2}
    Asked = {}
    Order = {o1}
    NoOrder = NoOrder
    ShippingStatus <- MCShipping
    ShippingMoves <- MCMoves
    RuleSets <- MCBaseline
    Sweeper = {s1}
    BatchLimit = 1
    MaxFaults = 1
SPECIFICATION FairSpec
PROPERTY
    OfferedIsSettled
