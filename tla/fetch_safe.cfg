SPECIFICATION Spec
CONSTANTS
    r1 = r1
    r2 = r2
    r3 = r3
    Replica <- Trio
    Block <- Fork
    b0 = 0
    Parent <- ForkParent
    QcOf <- ForkQcOf
    Invalid = {4}
    Proposer <- ForkProposer
    Has <- ForkHas
    Sent <- ForkSent
    Mortal = {r2}
    Lossy = FALSE
CHECK_DEADLOCK FALSE
INVARIANTS
    TypeOK
    DeliveredInOrder
    NoLostWaiter
    AskedHaveIt
