\* Two runs of any kind, an operator, one fault.
CONSTANTS
    Run = {r1, r2}
    NoRun = NoRun
    MaxFaults = 1
SYMMETRY RunSymmetry
SPECIFICATION Spec
INVARIANTS
    ReceiptFollowsJournal
    JournalsBelongToStore
    EveryEndIsRecorded
CHECK_DEADLOCK FALSE
