CONSTANTS
    Proc = {p1, p2}
    Operator = {}
    NoProc = NoProc
    MaxQueueTickets = 2
    MaxCounter = 3
SPECIFICATION FairSpec
PROPERTIES
    CallsReturn
    NobodyWaitsForever
