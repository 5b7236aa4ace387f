SPECIFICATION Spec
CONSTANTS
    nreplicas = 2
    Id = 0
    MaxBlock = 4
    MaxBeat = 1
    MaxCall = 1
INVARIANTS
    RotatingHasTimer
CHECK_DEADLOCK FALSE
