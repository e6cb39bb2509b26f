\* A rule is edited between the re-check and the write.
CONSTANTS
    Request = {r1}
    Proposal = {p1}
    Asked = {p1}
    Order = {o1}
    NoOrder = NoOrder
    ShippingStatus <- MCShipping
    ShippingMoves <- MCMoves
    RuleSets <- MCRuleSets
    Sweeper = {}
    BatchLimit = 1
    MaxFaults = 0
SPECIFICATION Spec
PROPERTY
    CancelledUnderCurrentRules
