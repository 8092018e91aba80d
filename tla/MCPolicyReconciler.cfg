SPECIFICATION FairSpec
CONSTANTS
    Epochs = {1, 2}
    Policies = {p1, p2, p3}
    Broken = {p3}
    MaxAge = 1
    MaxFaults = 2
    None = None
INVARIANTS
    NoRollback
    ServedAsPublished
PROPERTIES
    StableWatermarkRises
    RetentionEnds
    PolicyConverges
CHECK_DEADLOCK FALSE
