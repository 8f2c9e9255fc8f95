\* A log of at most 2 lines before it is cut, a tail of 1 line and a fragment.
SPECIFICATION FairSpec
CONSTANTS
    MaxLog = 4
    TailLines = 2
    MaxLines = 5
INVARIANTS
    TypeOK
    NothingSkipped
    TailThenStream
PROPERTY
    CatchesUp
CHECK_DEADLOCK FALSE
