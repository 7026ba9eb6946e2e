SPECIFICATION SerialSpec
CONSTANTS
    owner = owner
    member = member
    e1 = e1
    e2 = e2
    r1 = r1
    r2 = r2
    Absent = Absent
    Members = {owner, member}
    Owners = {owner}
    Expenses = {e1, e2}
    Requests = {r1, r2}
    Amounts = {1, 2}
    MaxContributed = 3
SYMMETRY Symmetry
INVARIANTS
    Reconciled
    ChargesMatchExpenses
    SharesCoverAmount
PROPERTIES
    AccountRefined
CHECK_DEADLOCK FALSE
