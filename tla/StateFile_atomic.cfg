\* A reader, a writer of each kind, two attempts, four calls.
SPECIFICATION FairSpec
CONSTANTS
    Readers = {r}
    Appenders = {a}
    Overwriters = {w}
    Journalers = {j}
    Prompt = a
    Patience = 2
    MaxCalls = 4
INVARIANT
    TypeOK
PROPERTIES
    Atomic
    CallsReturn
CHECK_DEADLOCK FALSE
