SPECIFICATION Spec
CONSTANTS
    u1 = u1
    u2 = u2
    e1 = e1
    e2 = e2
    n1 = n1
    n2 = n2
    g1 = g1
    g2 = g2
    m1 = m1
    r1 = r1
    r2 = r2
    Absent = Absent
    Users = {u1, u2}
    Emails = {e1, e2}
    Names = {n1, n2}
    Identities = {g1, g2, m1}
    Provider <- ProviderOf
    Requests = {r1, r2}
SYMMETRY Symmetry
INVARIANTS
    LoginIsLinked
    ChecksSuffice
    ProfileIsCurrent
