CONSTANTS
    j1 = j1 j2 = j2
    w1 = w1 w2 = w2
    d1 = d1
    Jobs = {j1, j2}
    Workers = {w1, w2}
    Documents = {d1}
    DocumentOf <- OneDocument
    MaxAttempts = 2
    MaxCrashes = 1
    NoJob = NoJob
SPECIFICATION Spec
SYMMETRY Interchangeable
INVARIANTS
    OneAttemptAtATime RetriesBounded CompletedIsStored AcknowledgedWhenSafe Carried
PROPERTY ImplementsAttempts
CHECK_DEADLOCK FALSE
