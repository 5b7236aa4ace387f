SPECIFICATION Spec
CONSTANTS
    Roots = 2
    MaxPromise = 4
INVARIANTS
    TypeOK
    HandlersCalled
    CalledInOrder
    Outcomes
PROPERTIES
    SettledOnce
CHECK_DEADLOCK FALSE
