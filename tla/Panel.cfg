CONSTANTS
    Admins = {root, clerk}
    SudoAdmins = {root}
    Nobody = nobody
    MaxChecks = 2
    MaxWrites = 2
    MaxSent = 1
    MaxFails = 1
SPECIFICATION FairSpec
INVARIANTS
    TypeOK
    
    
PROPERTIES
    PolledCatchesUp
