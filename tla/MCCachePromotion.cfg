\* Two processes, up to four runs and two faults: promotions, recoveries and pins interleave.
CONSTANTS
    Proc = {p1, p2}
    NoProc = NoProc
    K1 = K1
    K2 = K2
    K3 = K3
    Key <- MCKey
    Plan <- MCPlan
    Gen = {1, 2}
    MaxRuns = 4
    MaxFaults = 2
SYMMETRY ProcSymmetry
SPECIFICATION Spec
CONSTRAINT Focus
INVARIANTS
    PromotedMeansCurrent
    LastGoodSurvives
    CompleteMeansGood
PROPERTIES
    PinnedEntryStable
