CONSTANTS
    Users = {u1, u2}
    Contents = {on, off}
    Off = off
    QueueSize = 1
    MaxTimeouts = 3
    MaxWire = 1
    MaxPending = 1
    ShortOutages = FALSE
    BackendRestarts = FALSE
    Refusals = TRUE
SPECIFICATION FairSpec
INVARIANTS
    TypeOK
    
    SyncedIsStreamed
PROPERTIES
    Converges
