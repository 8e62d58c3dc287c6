\* Receipts of every kind, policies of every version, one edit of a file at any time.
CONSTANTS
    Configs <- MCConfigs
    Policies <- MCPolicies
    Hosts <- MCHosts
    c1 = c1
    c2 = c2
    Commits = {c1, c2}
    Midnights <- MCMidnights
    Offsets <- MCOffsets
    Spans <- MCSpans
    Outcomes <- MCOutcomes
    Sizes <- MCSizes
    MaxEdits = 1
SYMMETRY CommitSymmetry
SPECIFICATION Spec
INVARIANTS
    AcceptedMeansDeserved
    DeservingRunAccepted
CHECK_DEADLOCK FALSE
