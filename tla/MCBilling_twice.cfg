CONSTANTS
    Loops = {l1}
    Threads = {t1}
    Invoices = {1}
    Trc20 = {}
    Users = {1}
    owner <- SameUser
    Plans = {1}
    planOf <- SamePlan
    Notices = {n1}
    Ops = {"checkout", "webhook", "apply", "manual"}
    BatchLimit = 200
    MaxCrashes = 0
    Free = Free
    home <- OneHome
SPECIFICATION Spec
CHECK_DEADLOCK FALSE
INVARIANT
    NeverGrantedTwice
