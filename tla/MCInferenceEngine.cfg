SPECIFICATION Spec
CONSTANTS
    Keys = {k1, k2}
    MovementKeys = {t1}
    Amounts = {1, 2}
    Credits = {1}
    Opening = 2
    Requests = {r1, r2, r3}
    None = None
INVARIANTS
    TypeOK
    Conserved
    HoldBacksOpenReservations
    Solvent
    OneOutcomePerKey
    ConsumedForDebit
    PaymentFailureFreezes
PROPERTIES
    FrozenAccountRests
SYMMETRY MCSymmetry
CHECK_DEADLOCK FALSE
