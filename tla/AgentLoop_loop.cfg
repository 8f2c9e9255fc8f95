\* Three iterations, two barriers that may never be lifted, both caps.
SPECIFICATION FairSpec
CONSTANTS
    Barriers = {1, 2}
    SessionFailures = {"api"}
    MaxIterations = 3
    HoursCapped = TRUE
    MaxNoops = 2
    BackoffCap = 6
INVARIANTS
    TypeOK
    GateFileTruthful
    BarrierRespected
PROPERTIES
    BackoffMatchesOutcome
    KeepsPromise
    KillStops
    CapStops
    KillApproaches
    AlwaysForward
