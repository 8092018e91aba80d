SPECIFICATION FairSpec
CONSTANTS
    s1 = s1
    s2 = s2
    m1 = m1
    m2 = m2
    Scopes = {s1, s2}
    Commands <- MCCommands
    Requests = {r1, r2, r3}
    Acks = {k1, k2}
    ScopeLockModes = {TRUE, FALSE}
    None = None
INVARIANTS
    OneReceiptPerCommand
    StaleStopIsCovered
    RetryRefusedOnlyWhenSuperseded
PROPERTIES
    ImplementsFenceRegister
    RequestsEnd
CHECK_DEADLOCK FALSE
