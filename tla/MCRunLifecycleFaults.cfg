\* One run of either kind, an operator, three faults.
CONSTANTS
    Run = {r1}
    NoRun = NoRun
    MaxFaults = 3
SPECIFICATION FairSpec
INVARIANTS
    JournalIsTrue
    JournalReplays
PROPERTIES
    EveryRunEnds
CHECK_DEADLOCK FALSE
