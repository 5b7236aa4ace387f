SPECIFICATION PMSpec
CONSTANTS
    r1 = r1
    r2 = r2
    Replica = {r1, r2}
    Byzantine = {}
    Down = {}
    Proposer = {r1, r2}
    MaxBlock = 6
    Block <- MCBlock
    b0 = 0
    TwoStep = TRUE
    VoteDisabled = {}
    PartialDelivery = TRUE
    StrayVotes = FALSE
SYMMETRY Sym
INVARIANTS
    TailCoversVotes
    TailsAreLeaves
    NeverThrows
    NeverBreached
    Agreement
PROPERTIES
    LogSpec
CHECK_DEADLOCK FALSE
