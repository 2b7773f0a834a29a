SPECIFICATION BackupSpec
CONSTANTS
    r1 = r1
    r2 = r2
    Torn = Torn
    None = None
    Run = {r1, r2}
    Asset = {b1}
    File = {f1}
    Keep = 2
    Stale = 1
    Longest = 1
    MaxTime = 3
SYMMETRY MCSymmetry
CHECK_DEADLOCK FALSE
INVARIANTS SuccessIsStored PairsRestore
PROPERTY LastValidKept
