CONSTANTS
    a1 = a1 a2 = a2
    Requests = {a1, a2}
    Calls <- AllCalls
    Scopes = {"subject", "tenant"}
    Budgets = {"tenant"}
    ScopeOf <- ScopesOfOne
    LimitOf <- OneEach
    PeriodOf <- Period
    WindowEnd <- Midnight
    Second = 3
    Times <- Moments
SPECIFICATION FairSpec
INVARIANTS
    WithinLimit RefusedWhenSpent RunsPaid RunsWithinBudget
    PromptsGrounded AuditTruthful
PROPERTIES
    RetryHelps EveryRequestEnds
CHECK_DEADLOCK FALSE
