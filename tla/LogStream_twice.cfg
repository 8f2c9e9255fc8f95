\* A line written between the measure of the size and the read, or a rotation.
SPECIFICATION FairSpec
CONSTANTS
    MaxLog = 4
    TailLines = 2
    MaxLines = 5
INVARIANT
    NeverTwice
CHECK_DEADLOCK FALSE
