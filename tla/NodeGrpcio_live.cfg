CONSTANTS
    Users = {u1, u2}
    Contents = {on, off}
    Off = off
    QueueSize = 2
    MaxTasks = 2
    MaxWire = 1
    MaxPending = 1
    BlindFlips = FALSE
    BackendRestarts = FALSE
    Refusals = FALSE
SPECIFICATION FairSpec
INVARIANTS
    TypeOK
    
    SyncedIsStreamed
PROPERTIES
    Converges
    UpdatesDrain
