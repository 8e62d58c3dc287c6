\* Two sessions, a history of two records that holds one already.
CONSTANTS
    Owner = {s1, s2}
    NoSession = NoSession
    Sample <- MCSample
    ConsecutiveSamples = 2
    TrendWindow = 2
    HistoryLimit = 2
    MaxFaults = 1
SPECIFICATION Spec
SYMMETRY SessionSymmetry
INVARIANTS
    OneGuardedCommand
    HistoryKeepsTheLatest
    ExitTellsWhatHappened
PROPERTIES
    TripsAreJustified
CHECK_DEADLOCK FALSE
