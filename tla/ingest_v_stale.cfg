CONSTANTS
    j1 = j1 j2 = j2
    w1 = w1 w2 = w2
    d1 = d1
    Jobs = {j1, j2}
    Workers = {w1}
    Documents = {d1}
    DocumentOf <- OneDocument
    MaxAttempts = 2
    MaxCrashes = 0
    NoJob = NoJob
SPECIFICATION Spec
SYMMETRY Interchangeable
INVARIANT
    NewestContentWins
CHECK_DEADLOCK FALSE
