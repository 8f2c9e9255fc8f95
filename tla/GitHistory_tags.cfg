\* Two iterations, four commits, pushes that fail, rollbacks at any point.
SPECIFICATION Spec
CONSTANTS
    MaxIterations = 2
    MaxCommits = 4
    Unreliable = TRUE
INVARIANTS
    TypeOK
    TaggedIsPushed
    TagIsWholeIteration
    TagsFollow
PROPERTY
    Publishes
CHECK_DEADLOCK FALSE
