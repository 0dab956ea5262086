CONSTANTS
    Loops = {l1}
    Threads = {t1, t2}
    Invoices = {1, 2}
    Trc20 = {2}
    Users = {1, 2}
    owner <- OwnUser
    Plans = {1}
    planOf <- SamePlan
    Notices = {n1}
    Ops = {"checkout", "webhook", "poll", "reap", "apply", "manual", "cancel", "update_plan"}
    BatchLimit = 200
    MaxCrashes = 1
    Free = Free
    home <- OneHome
SPECIFICATION Spec
CHECK_DEADLOCK FALSE
INVARIANTS
    TypeOK
    LockedReadIsCurrent
    GrantedOnce
    AuditChain
    AnsweredIsSettled
    
PROPERTIES
    OnlyStaleReadsStray
