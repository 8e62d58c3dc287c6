SPECIFICATION FairSpec
CONSTANTS
    Kid = {k1}
    Total = 4
    GraceCap = 2
    Limit = 1
    MaxBytes = 2
    MaxFaults = 1
INVARIANTS
    WithinTimeout
    TruthfulOutcome
PROPERTIES
    Contract
    Returns
CHECK_DEADLOCK FALSE
