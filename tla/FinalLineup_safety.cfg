SPECIFICATION FLSpec
CONSTANTS
    p1 = p1
    p2 = p2
    w1 = w1
    w2 = w2
    s1 = s1
    c1 = c1
    c2 = c2
    c3 = c3
    Process = {p1, p2}
    Session = {w1, w2, s1}
    Worker = {w1, w2}
    Conn = {c1, c2, c3}
    Resource = {m1}
    ProcessOf <- MCProcessOf
    PoolSize = 2
    MaxReentry = 1
    MaxTries = 2
    Faults = TRUE
    None = None
INVARIANTS NoLostUpdate AttemptsCountedOnce ReportedSuccess
PROPERTIES SuccessIsFinal RefinesLineupFate
SYMMETRY MCSymmetry
