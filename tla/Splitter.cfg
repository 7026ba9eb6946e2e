SPECIFICATION SplitSpec
CONSTANTS
    Cent = 2
    MaxAmount = 9
    MaxClaim = 5
    MaxShares = 3
    MaxPeople = 4
    Inputs <- AllCalls
INVARIANTS
    SplitsAddUp
    ClaimsKept
    FairShares
CHECK_DEADLOCK FALSE
