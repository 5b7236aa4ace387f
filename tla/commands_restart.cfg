SPECIFICATION Spec
CONSTANTS
    r1 = r1
    r2 = r2
    r3 = r3
    r4 = r4
    Replica = {r1, r2}
    Down = {}
    proposer = r1
    nmajority = 2
    nfaulty = 0
    Depth = 2
    blk_size = 2
    max_async_num = 4
    MaxIter = 5
    MaxClient = 2
INVARIANTS
    TypeOK
    ProposedOnce
CHECK_DEADLOCK FALSE
