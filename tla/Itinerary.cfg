SPECIFICATION Spec
CONSTANTS
    i1 = i1
    i2 = i2
    i3 = i3
    i4 = i4
    r1 = r1
    r2 = r2
    Absent = Absent
    Ids = {i1, i2, i3}
    Requests = {r1, r2}
    Day = 3
    Days = 2
    Block = 3
    Times = {0, 1, 2}
    Latest = 4
    Answers <- SomeAnswers
SYMMETRY Symmetry
INVARIANTS
    TimesInOrder
    PlanIsOrdered
PROPERTIES
    UpdateClearsDay
    UpdateMovesOnlyWhatCollides
