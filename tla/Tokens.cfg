SPECIFICATION Spec
CONSTANTS
    t1 = t1
    t2 = t2
    t3 = t3
    t4 = t4
    t5 = t5
    r1 = r1
    r2 = r2
    r3 = r3
    Absent = Absent
    Tokens = {t1, t2, t3, t4, t5}
    Requests = {r1, r2, r3}
SYMMETRY Symmetry
INVARIANTS
    OneSessionPerLogin
    RevokedForGood
PROPERTIES
    SessionsRefined
