SPECIFICATION FairSpec
CONSTANTS
    None = None
    Clients = {c1, c2}
    Present = {c1}
    Messages = {m1, m2}
    Replicas = {a}
    Buffer = 2
    MaxChunks = 2
INVARIANTS NothingMissed AnswersBuildOnEachOther ShownIsReal
PROPERTIES EveryMessageAnswered
CHECK_DEADLOCK FALSE
