SPECIFICATION FairSpec
CONSTANTS
    r1 = r1
    r2 = r2
    w1 = w1
    w2 = w2
    a1 = a1
    a2 = a2
    a3 = a3
    Replica = {r1, r2}
    Block = {0, 1, 2}
    b0 = 0
    nmajority = 2
    Job <- MCJob
    Votes <- MCVotes
    BlkHash <- MCBlkHash
    ObjHash <- MCObjHash
    Sigs <- MCSigs
    Worker = {w1, w2}
    Address = {a1, a2, a3}
    NoAddress = NoAddress
    NoTask = NoTask
INVARIANTS
    TasksAlive
    AnswersRight
PROPERTIES
    AllAnswered
CHECK_DEADLOCK FALSE
