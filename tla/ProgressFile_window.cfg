\* The agent drops the separator, or puts the section before it.
SPECIFICATION ProgressSpec
CONSTANT MaxBlocks = 6
PROPERTY
    DecisionsPersist
