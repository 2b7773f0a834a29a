SPECIFICATION Spec
CONSTANTS
    t1 = t1
    t2 = t2
    p1 = p1
    j = j
    d1 = d1
    d2 = d2
    r1 = r1
    Team = {t1, t2}
    Replica = {p1}
    Reader = {r1}
    Direct = {j}
    Daily = {d1, d2}
    Home <- MCHome
    Answer <- MCAnswer
    MaxVersion = 2
INVARIANTS MixedOnlyByPrewarm FactsFollowOwnRows FlagExplained
PROPERTIES RowsMoveForward CacheSettles
