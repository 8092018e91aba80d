SPECIFICATION ProxySpec
CONSTANTS
    Keys = {k1}
    MovementKeys = {}
    Amounts = {1}
    Credits = {}
    Opening = 3
    Requests = {r1, r2}
    MaxStarts = 1
    MaxFaults = 0
    None = None
PROPERTIES
    RestartPreservesLedger
CHECK_DEADLOCK FALSE
