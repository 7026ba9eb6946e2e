SPECIFICATION Spec
CONSTANTS
    m1 = m1
    b1 = b1
    b2 = b2
    t1 = t1
    c1 = c1
    c2 = c2
    r1 = r1
    r2 = r2
    Members = {m1}
    Batches = {b1, b2}
    Texts = {t1}
    Recs = {c1, c2}
    BatchOf <- BatchOfRec
    Requests = {r1, r2}
SYMMETRY Symmetry
INVARIANTS
    IndicatorGoesOff
    HeardInOrder
    LikesShownAreStored
