SPECIFICATION Spec
CONSTANTS
    Epochs = {1, 2}
    Policies = {p1}
    Broken = {}
    MaxAge = 1
    MaxFaults = 2
    None = None
INVARIANTS
    NoRollbackEver
CHECK_DEADLOCK FALSE
