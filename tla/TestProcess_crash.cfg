\* Two starts and a stop: clients and guardians are killed, stall or cannot write the record.
SPECIFICATION Spec
CONSTANTS
    Starts = {a, b}
    Past = {}
    Stops = {k}
    Cleaners = {}
    Pids = {p1, p2}
    ControlPorts = {c1, c2}
    NoRun = NoRun
    Foreign = Foreign
    Faults = {"crash", "write", "stall"}
INVARIANTS
    TypeOK
    OneRunPerSlot
    StartReturnsOwnRun
    OnlyOwnRequestKills
    ServingIsStoppable
PROPERTY
    LiveRecordKept
SYMMETRY Symmetric
CHECK_DEADLOCK FALSE
