CONSTANTS
    Loops = {l1, l2}
    Threads = {t1, t2}
    Invoices = {1, 2}
    Trc20 = {}
    Users = {1}
    owner <- SameUser
    Plans = {1}
    planOf <- SamePlan
    Notices = {n1}
    Ops = {"checkout", "apply", "manual", "update_plan"}
    BatchLimit = 200
    MaxCrashes = 1
    Free = Free
    home <- OneHome
SPECIFICATION Spec
CHECK_DEADLOCK FALSE
INVARIANTS
    GrantedOnce
    QuotaNeverExceedsGrants
PROPERTIES
    ImplementsLifecycle
