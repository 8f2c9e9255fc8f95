\* Two loops on one state directory, only one of them with a fallback model.
SPECIFICATION FairSpec
CONSTANTS
    Loops = {l1, l2}
    FallbackLoops = {l1}
    MaxFailures = 2
    BasePause = 1
    MaxMultiplier = 4
INVARIANTS
    TypeOK
    DataSound
    FallbackOnlyWhileOpen
PROPERTIES
    InformedLoopsKeep
    PauseEnds
