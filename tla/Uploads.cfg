SPECIFICATION UploadsSpec
CONSTANTS
    u1 = u1
    u2 = u2
    u3 = u3
    g = g
    m = m
    s = s
    NoPicture = NoPicture
    Uploads = {u1, u2, u3}
    Groups = {g}
    Users = {m}
    Settlements = {s}
    MaxTime = 1
INVARIANTS
    PicturesShown
PROPERTIES
    PicturesAccounted
CHECK_DEADLOCK FALSE
