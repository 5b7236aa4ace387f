SPECIFICATION FairSpec
CONSTANTS
    r1 = r1
    r2 = r2
    r3 = r3
    Replica <- Trio
    Block <- Tip
    b0 = 0
    Parent <- TipParent
    QcOf <- TipParent
    Invalid = {}
    Proposer <- TipProposer
    Has <- TipHas
    Sent <- TipSent
    Mortal = {r1}
    Lossy = TRUE
CHECK_DEADLOCK FALSE
PROPERTIES
    FetchesEnd
    DeliveriesEnd
