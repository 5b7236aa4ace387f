SPECIFICATION FairSpec
CONSTANTS
    r1 = r1
    r2 = r2
    r3 = r3
    r4 = r4
    Replica = {r1, r2, r3, r4}
    Down = {}
    proposer = r1
    nmajority = 3
    nfaulty = 1
    Depth = 2
    blk_size = 1
    max_async_num = 3
    MaxIter = 3
    MaxClient = 1
INVARIANTS
    NoLostCommand
    ConfirmedDecided
PROPERTIES
    Confirmed
CHECK_DEADLOCK FALSE
