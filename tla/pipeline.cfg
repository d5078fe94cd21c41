CONSTANTS
    j1 = j1
    w1 = w1 w2 = w2
    u1 = u1
    d1 = d1
    ana = ana
    Jobs = {j1}
    Workers = {w1, w2}
    MaxAttempts = 2
    MaxCrashes = 1
    Documents = {d1}
    Tenants = {d1}
    TenantOf <- OwnTenant
    Subjects = {ana}
    MaxChunks = 2
    PayloadOf <- Contending
    Uploads = {u1}
    Nothing = Nothing
SPECIFICATION FairSpec
INVARIANTS
    OneTransactionPerJob CompletedIsSearchable
PROPERTIES
    ImplementsJobs JobsSettle TransactionsEnd
CHECK_DEADLOCK FALSE
