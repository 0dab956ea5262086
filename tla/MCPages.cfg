CONSTANTS
    Ids = {1, 2}
    Sizes = {1, 2}
    Keywords = {"", "k"}
    Kinds = {"plain", "double", "hosts", "services", "inbounds"}
    MaxAsked = 2
    Stored <- MCStored
    QuickPlans <- MCPlans
    Limits = {0, 2}
    Dates = {9}
    Metric = 4
    Zones = {0, 1}
    Users = {1}
    Fixed = {1}
    Flexible = {2}
    Channels = {1}
    MaxQuantity = 2
    MaxPurchases = 2
    MaxInvoices = 2
    Rows = {1, 2}
    MaxOpenings = 2
    MaxSent = 2
    Documents = {1, 2}
    MaxSaves = 2
    MaxLogs = 2
    MaxLines = 4
    MaxRetries = 2
    MaxWrites = 1
SPECIFICATION Spec
CHECK_DEADLOCK FALSE
INVARIANTS
    
    
    ChargedOnce
    SavedConfigParses
