SPECIFICATION PMSpec
CONSTANTS
    r1 = r1
    r2 = r2
    r3 = r3
    r4 = r4
    Replica = {r1, r2, r3, r4}
    Byzantine = {r4}
    Down = {r3}
    Proposer = {r1}
    MaxBlock = 4
    Block <- MCBlock
    b0 = 0
    TwoStep = FALSE
    VoteDisabled = {}
    PartialDelivery = FALSE
    StrayVotes = FALSE
SYMMETRY Sym
INVARIANTS
    TypeOK
    ProposerAccepts
    ExecutedIsLocked
    HqcCertified
    TailExtendsHqc

    
CHECK_DEADLOCK FALSE
