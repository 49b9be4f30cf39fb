\* What must eventually happen, one run at a time.
SPECIFICATION FairSpec
CONSTANTS
    Starts = {a}
    Past = {}
    Stops = {k}
    Cleaners = {m}
    Pids = {p1, p2}
    ControlPorts = {c1, c2}
    NoRun = NoRun
    Foreign = Foreign
    Faults = {"crash", "write", "launch", "foreign"}
PROPERTIES
    StoppedRunLeaves
    OrphanJobsDie
    ImplementsFairRunSlot
CHECK_DEADLOCK FALSE
