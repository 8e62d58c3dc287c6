\* Two processes, two ticket numbers, one operator, from an absent directory.
CONSTANTS
    Proc = {p1, p2}
    Operator = {op}
    NoProc = NoProc
    MaxQueueTickets = 2
    MaxCounter = 3
SPECIFICATION RootSpec
SYMMETRY ProcSymmetry
INVARIANTS
    RootAllOrNothing
    OnlyAbandoned
    ReportIsTrue
CHECK_DEADLOCK FALSE
