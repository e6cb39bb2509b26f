\* Proposals from their first row to their outcome, with failures and the sweep.
CONSTANTS
    Request = {r1, r2}
    Proposal = {p1, p2}
    Asked = {}
    Order = {o1}
    NoOrder = NoOrder
    ShippingStatus <- MCShipping
    ShippingMoves <- MCMoves
    RuleSets <- MCBaseline
    Sweeper = {s1}
    BatchLimit = 2
    MaxFaults = 1
SPECIFICATION FairSpec
INVARIANTS
    TypeOK
PROPERTIES
    LifecycleSpec
    EveryRequestAnswered
    OfferedIsSettled
