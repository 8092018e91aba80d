SPECIFICATION Spec
CONSTANTS
    k1 = k1
    k2 = k2
    k3 = k3
    Requests = {r1, r2}
    Specs = {s1}
    Subjects = {w1, w2}
    Attempts = {x1, x2}
    Trusted = {k1, k2, k3}
    PrincipalOf <- MCPrincipalOf
    AssertionSets <- MCAssertionSets
    Quorum = 2
    MaxAssertions = 2
    MinHold = 1
    ChallengeTTL = 2
    MaxLifetime = 3
    GrantTTL = 2
    AdmissionTTL = 2
    Lags = {0, 1}
    MaxTime = 4
    None = None
INVARIANTS
    RowsValidate
    AdmissionWithinCeremony
PROPERTIES
    AuthorityWrittenOnce
    FenceFreezesAuthority
    RetriesSuffice
SYMMETRY MCSymmetry
CHECK_DEADLOCK FALSE
