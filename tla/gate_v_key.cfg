CONSTANTS
    r1 = r1 r2 = r2 r3 = r3
    t1 = t1 t2 = t2
    k1 = k1
    a1 = a1 a2 = a2
    ana = ana bob = bob
    Requests = {r1, r2}
    Tokens = {t1, t2}
    Keys = {k1}
    Arguments = {a1, a2}
    Principals = {ana, bob}
    Writers = {ana, bob}
    TenantOf <- OneTenant
    Lifetime = 1
    MaxTime = 1
    NoRow = NoRow
    NoRequest = NoRequest
    NoResult = NoResult
SPECIFICATION Spec
SYMMETRY Interchangeable
INVARIANT
    KeyExecutesOnce
CHECK_DEADLOCK FALSE
