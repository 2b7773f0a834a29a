SPECIFICATION Spec
CONSTANTS
    a = a
    b = b
    f1 = f1
    f2 = f2
    s1 = s1
    s2 = s2
    k1 = k1
    k2 = k2
    k3 = k3
    k4 = k4
    k5 = k5
    k6 = k6
    n1 = n1
    n2 = n2
    n3 = n3
    n4 = n4
    n5 = n5
    NoRow = NoRow
    Syncer = {s1, s2}
    Team = {a, b}
    Match = {f1, f2}
    Record <- MCRecord
    Response <- MCResponse
    Gives <- MCGives
INVARIANTS ChangesDropped CoachesAgree LosersFind
PROPERTY VenueKept
