CONSTANTS
    Users = {u1}
    Contents = {on, off}
    Off = off
    QueueSize = 1
    MaxTimeouts = 3
    MaxWire = 1
    MaxPending = 1
    ShortOutages = TRUE
    BackendRestarts = TRUE
    Refusals = TRUE
SPECIFICATION FairSpec
INVARIANTS
    UnhealthyIsUnsynced
PROPERTIES
    LossIsNoticed
    UpdatesDrain
