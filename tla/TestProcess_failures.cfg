\* Every failure and crashes, under two stop clients; a foreign process uses the port.
SPECIFICATION Spec
CONSTANTS
    Starts = {a, z}
    Past = {z}
    Stops = {k, l}
    Cleaners = {m}
    Pids = {p1, p2}
    ControlPorts = {c1, c2}
    NoRun = NoRun
    Foreign = Foreign
    Faults = {"probe", "write", "kill", "launch", "stall", "foreign", "crash"}
INVARIANTS
    StopMeansTerminated
    FreeMeansUnbound
    ReadyWasOwned
PROPERTIES
    ImplementsRunSlot
    LiveRecordKept
SYMMETRY Symmetric
CHECK_DEADLOCK FALSE
