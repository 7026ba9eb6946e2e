SPECIFICATION Spec
CONSTANTS
    u1 = u1
    u2 = u2
    e1 = e1
    s1 = s1
    s2 = s2
    r1 = r1
    r2 = r2
    Empty = Empty
    Users = {u1, u2}
    Expenses = {e1}
    Settlements = {s1, s2}
    Amounts = {1}
    MaxSpent = 1
    Requests = {r1, r2}
SYMMETRY Symmetry
INVARIANTS
    BalancesSum
    CacheIsCurrent
