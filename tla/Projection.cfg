SPECIFICATION Spec
CONSTANTS
    s1 = s1
    s2 = s2
    e1 = e1
    e2 = e2
    Syncer = {s1, s2}
    Entry = {e1, e2}
    Board <- MCBoard
    MaxAnswer = 2
SYMMETRY MCSymmetry
INVARIANTS FactsFollowSource SourceIsAccepted KeptLinesRead
