\* Silence for 2 ticks or 4 in all, a child and a daemon.
SPECIFICATION FairSpec
CONSTANTS
    IdleLimit = 2
    TotalLimit = 4
INVARIANTS
    TypeOK
    KilledIsReported
PROPERTY
    SessionEnds
CHECK_DEADLOCK FALSE
