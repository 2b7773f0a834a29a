SPECIFICATION Spec
CONSTANTS
    w1 = w1
    w2 = w2
    m1 = m1
    m2 = m2
    m3 = m3
    Worker = {w1, w2}
    Message = {m1, m2, m3}
    MaxRetries = 2
INVARIANTS TypeOK OneCopy
PROPERTIES RefinesFate Drains
