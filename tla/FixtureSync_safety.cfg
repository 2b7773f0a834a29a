SPECIFICATION Spec
CONSTANTS
    m1 = m1
    m2 = m2
    s1 = s1
    s2 = s2
    Match = {m1}
    Syncer = {s1, s2}
    Repair = {s2}
    MaxAge = 4
INVARIANTS TypeOK PreviousIsCurrent
PROPERTIES RecordWithEnd RowsMoveForward
