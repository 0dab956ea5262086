CONSTANTS
    Loops = {l1}
    Threads = {}
    Invoices = {1, 2}
    Trc20 = {2}
    Users = {1}
    owner <- SameUser
    Plans = {1, 2}
    planOf <- OwnPlan
    Notices = {n1, n2}
    Ops = {"checkout", "webhook", "poll", "reap", "apply", "update_plan"}
    BatchLimit = 200
    MaxCrashes = 1
    Free = Free
    home <- OneHome
SPECIFICATION FairSpec
CHECK_DEADLOCK FALSE
INVARIANT
    WebhookDeduplicated
PROPERTIES
    ImplementsLifecycle
    
    OverdueIsClosed
