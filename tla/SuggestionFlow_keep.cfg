\* Three suggestions, sent at any point of any iteration; the real window.
SPECIFICATION Spec
CONSTANTS
    Suggestions = {s1, s2, s3}
    Window = 2
INVARIANTS
    TypeOK
    FailedIterationKeeps
    DecisionEmpties
PROPERTY
    ReadIsShown
