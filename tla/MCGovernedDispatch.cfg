SPECIFICATION DispatchSpec
CONSTANTS
    c1 = c1
    c2 = c2
    c3 = c3
    p1 = p1
    p2 = p2
    a1 = a1
    Admissions = {a1}
    Calls = {c1, c2}
    Processes = {p1}
    ProcessOf <- MCProcessOf
    EffectOf <- MCEffectOf
    Execs <- MCExecs
    Intents = {c1, c2}
    Effects = {c1, c2}
    Reasons <- MCReasons
    CommandIds = {}
    ResolveActions = {}
    Refs = {d1}
    None = None
    ReleaseKeys = {k1}
    Windows <- MCWindows
    AdmissionTTL = 1
    Skew = 1
    MaxTime = 2
    MaxEpoch = 1
    MaxRevision = 2
    MaxDispositions = 0
    MaxFaults = 3
INVARIANTS
    SentOnceByRecordedStart
    ReportsTruthful
    SettledWithoutFaults
    ClosedTruthfully
PROPERTIES
    ImplementsGovernedEffect
SYMMETRY MCSymmetry
CHECK_DEADLOCK FALSE
