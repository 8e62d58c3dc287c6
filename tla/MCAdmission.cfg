\* Three contending processes, residue of crashes, a full queue.
CONSTANTS
    Proc = {p1, p2, p3}
    Operator = {}
    NoProc = NoProc
    MaxQueueTickets = 2
    MaxCounter = 4
SPECIFICATION Spec
SYMMETRY ProcSymmetry
CONSTRAINT Focus
INVARIANTS
    QueueWithinLimit
    OwnersUndisturbed
PROPERTIES
    TicketNumbersFresh
    ImplementsFifoSlot
