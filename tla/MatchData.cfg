SPECIFICATION Spec
CONSTANTS
    s1 = s1
    s2 = s2
    n1 = n1
    r1 = r1
    Syncer = {s1, s2, n1}
    Nested = {n1}
    Reader = {r1}
    MaxAnswer = 1
INVARIANTS TypeOK MixedOnlyByNested
PROPERTIES AnswersMoveForward CacheSettles
