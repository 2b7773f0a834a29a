SPECIFICATION Spec
CONSTANTS
    p1 = p1
    p2 = p2
    s1 = s1
    s2 = s2
    s3 = s3
    c1 = c1
    c2 = c2
    c3 = c3
    Process = {p1, p2}
    Session = {s1, s2, s3}
    Conn = {c1, c2, c3}
    Resource = {r1}
    ProcessOf <- MCProcessOf
    PoolSize = 1
    MaxReentry = 3
    None = None
INVARIANTS TypeOK FirstTransactionExclusion CrossProcessExclusion
PROPERTY RefinesMutex
