SPECIFICATION FairSimplifySpec
CONSTANTS
    p1 = p1
    p2 = p2
    p3 = p3
    p4 = p4
    People = {p1, p2, p3, p4}
    MaxBalance = 4
    PendingLists <- AnyPending
INVARIANTS
    NobodyOverpays
    ProposalsExplainBalances
    LeftoverBounded
    PendingSubtracted
PROPERTIES
    Returns
CHECK_DEADLOCK FALSE
