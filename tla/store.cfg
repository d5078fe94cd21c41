CONSTANTS
    i1 = i1 i2 = i2 i3 = i3
    q1 = q1
    d1 = d1 d2 = d2
    ana = ana
    Ingests = {i1, i2, i3}
    Uploads = {i1, i2}
    Searches = {q1}
    Documents = {d1, d2}
    Tenants = {d1, d2}
    TenantOf <- TenantEach
    Subjects = {ana}
    MaxChunks = 2
    Limit = 2
    NoIngest = NoIngest
SPECIFICATION Spec
SYMMETRY Interchangeable
INVARIANTS
    WholeVersions SearchesAuthorized
PROPERTIES
    SearchesReadCurrent ImplementsWhole
CHECK_DEADLOCK FALSE
