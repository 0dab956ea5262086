CONSTANTS
    Users = {u1}
    Contents = {on, off}
    Off = off
    QueueSize = 2
    MaxTasks = 2
    MaxWire = 1
    MaxPending = 1
    BlindFlips = TRUE
    BackendRestarts = TRUE
    Refusals = TRUE
SPECIFICATION Spec
INVARIANTS
    UnhealthyIsUnsynced
