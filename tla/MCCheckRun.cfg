CONSTANTS
    build = build
    lint = lint
    test = test
    Check = {build, lint, test}
    Plans <- MCPlans
    Required = {build, test}
    Deps <- MCDeps
    Producer = {lint}
    Directory = {lint}
    MaxRuns = 1
    Owner = {r}
    Sample <- MCSample
    ConsecutiveSamples = 2
    TrendWindow = 2
SPECIFICATION Spec
INVARIANTS
    PassedForReal
    PassIsDeserved
    PressureIsReported
    PromotedAfterVerdict
    EndIsClean
CHECK_DEADLOCK FALSE
