\* Two requests for one or two directories, polled by one browser.
SPECIFICATION FairSpec
CONSTANTS
    Requests = {1, 2}
    Projects = {p1, p2}
    Shown = p1
INVARIANTS
    TypeOK
    SteadyTruth
    OneLoopPerDirectory
    SessionMatchesPid
PROPERTY
    StatusSettles
CHECK_DEADLOCK FALSE
