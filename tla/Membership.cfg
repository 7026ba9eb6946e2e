SPECIFICATION NoticesSpec
CONSTANTS
    u1 = u1
    u2 = u2
    u3 = u3
    i1 = i1
    i2 = i2
    r1 = r1
    r2 = r2
    Absent = Absent
    Users = {u1, u2, u3}
    Invites = {i1}
    Requests = {r1, r2}
    MaxMembers = 2
SYMMETRY Symmetry
INVARIANTS
    AcceptedMeansJoined
    NoticeTruthful
    NoticesCatchUp
PROPERTIES
    LeftIsFinal
    OwnerRemains
    OwnerNeverEvicted
    AddKeepsLimit
CHECK_DEADLOCK FALSE
