\* Two admins, a rule they compete for, a disabled one that cannot be evaluated.
CONSTANTS
    Text <- MCText
    Admin = {a1, a2}
    Definition <- MCDefinition
    Change <- MCChange
    TenantRules <- MCTenantRules
    World <- MCWorld
    MaxRequests = 3
    MaxFaults = 1
    MaxDecisions = 1
SPECIFICATION Spec
SYMMETRY MCSymmetry
CHECK_DEADLOCK FALSE
INVARIANTS
    TypeOK
    ListedIsInForce
    NoEditLost
    AnsweredAsSaved
    DecisionsStayExplained
    TenantOnlyStricter
    LoopAgrees
