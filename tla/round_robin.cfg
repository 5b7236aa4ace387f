SPECIFICATION Spec
CONSTANTS
    nreplicas = 2
    Id = 0
    MaxBlock = 4
    MaxBeat = 2
    MaxCall = 1
INVARIANTS
    TypeOK
    OneWaits
    
    ManualDecides

    
CHECK_DEADLOCK FALSE
