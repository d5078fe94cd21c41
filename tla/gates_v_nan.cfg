CONSTANTS
    a = a b = b x = x y = y z = z
    CaseIds = {a, b}
    CaseFiles <- Cases
    PredictionFiles <- Predictions
    SecurityFiles <- Checks
    Invalid = Invalid
    NaN = NaN
    K = 2
    Percentile = 95
    Scale = 2
SPECIFICATION Spec
INVARIANT
    LatencyGated
CHECK_DEADLOCK FALSE
