SPECIFICATION Spec
CONSTANTS
    l1 = l1
    l2 = l2
    n1 = n1
    n2 = n2
    y1 = y1
    y2 = y2
    a1 = a1
    a2 = a2
    Grouped = Grouped
    NoRow = NoRow
    NoTable = NoTable
    Admin = {a1, a2}
    Reader = {r1}
    League = {l1, l2}
    Name = {n1, n2}
    Season = {y1, y2}
    Seed <- MCSeed
    Asked <- MCAsked
    Table <- MCTable
    MaxView <- MCMaxView
SYMMETRY MCSymmetry
PROPERTIES RemovalCommits
