SPECIFICATION ProxySpec
CONSTANTS
    Keys = {k1, k2}
    MovementKeys = {}
    Amounts = {1, 2}
    Credits = {}
    Opening = 3
    Requests = {r1, r2, r3}
    MaxStarts = 2
    MaxFaults = 1
    None = None
INVARIANTS
    NoUnreceiptedDispatch
    AcknowledgedSurvives
    AcknowledgedStaySpent
SYMMETRY MCSymmetry
CHECK_DEADLOCK FALSE
