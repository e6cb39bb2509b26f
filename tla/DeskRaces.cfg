\* Three requests race over two open dialogs about one order.
CONSTANTS
    Request = {r1, r2, r3}
    Proposal = {p1, p2}
    Asked = {p1, p2}
    Order = {o1}
    NoOrder = NoOrder
    ShippingStatus <- MCShipping
    ShippingMoves <- MCMoves
    RuleSets <- MCRuleSets
    Sweeper = {}
    BatchLimit = 1
    MaxFaults = 1
SPECIFICATION Spec
SYMMETRY MCSymmetry
INVARIANTS
    CancelledExactlyWhenExecuted
    ExecutedWasAuthorisedTwice
    TicketWithItsCause
    AnswersAreTrue
    PromiseKeptOutsideLateRefusals
PROPERTIES
    CancelledOnCurrentFacts
