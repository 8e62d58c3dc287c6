CONSTANTS
    Families <- MCContracts
    MaxChecks = 4
    MaxCaches = 2
    MaxRuntimes = 2
    MaxBytes = 4
    MaxEntries = 2
    MaxStorage = 6
    MinReserve = 2
    Commits <- MCCommits
    MaxUses = 2
    HostNames = {5, 20, 21}
    Host = {5, 20}
SPECIFICATION WorkspaceSpec
INVARIANTS
    PlanIgnoresDeclarationOrder
CHECK_DEADLOCK FALSE
