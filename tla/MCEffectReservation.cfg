SPECIFICATION Spec
CONSTANTS
    Admissions = {a1}
    Execs = {x1, x2}
    Intents = {i1}
    Effects = {f1, f2}
    Reasons = {r1}
    CommandIds = {c1, c2}
    ResolveActions = {RECONCILE_SOURCE}
    Refs = {d1}
    None = None
    ReleaseKeys = {k1}
    Windows <- MCWindows
    AdmissionTTL = 1
    Skew = 1
    MaxTime = 3
    MaxEpoch = 2
    MaxRevision = 2
    MaxDispositions = 2
INVARIANTS
    TypeOK
    ExecutionIdentityPreserved
    ClosureRecoverable
    DispositionsRecoverable
PROPERTIES
    StopFreezesWork
    CloseObeysInstruction
SYMMETRY MCSymmetry
CHECK_DEADLOCK FALSE
