CONSTANTS
    Tabs = {t1, t2}
    Customers = {c1}
    MaxTokens = 1
    MaxSubmits = 1
    Days = {7, 14}
    FirstDays = 14
    Visited = {"/login", "/signup", "/dashboard", "/panel/account", "/contact"}
    StorageFails = TRUE
SPECIFICATION FairSpec
INVARIANTS
    TypeOK
    ChartMatchesPeriod
    LoadingPagesAreAnswered

    
    
