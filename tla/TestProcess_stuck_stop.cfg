\* A guardian that fails while draining never leaves.
SPECIFICATION FairSpec
CONSTANTS
    Starts = {a}
    Past = {}
    Stops = {k}
    Cleaners = {}
    Pids = {p1, p2}
    ControlPorts = {c1, c2}
    NoRun = NoRun
    Foreign = Foreign
    Faults = {"probe"}
PROPERTY
    StoppedRunLeaves
CHECK_DEADLOCK FALSE
