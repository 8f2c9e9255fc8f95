\* A suggestion sent during an iteration is erased by its purge.
SPECIFICATION Spec
CONSTANTS
    Suggestions = {s1, s2}
    Window = 2
PROPERTY
    ErasedAfterShown
