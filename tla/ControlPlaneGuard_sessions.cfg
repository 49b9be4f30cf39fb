\* Every command and every failure, one command at a time.
SPECIFICATION Spec
CONSTANTS
    root = root
    rad = rad
    docs = docs
    nested = nested
    Root = root
    ControlDirs = {rad}
    Paths = {root, rad, docs, nested}
    Rank <- Order
    Leaves = {nested}
    Inside <- Below
    Movable = {rad}
    Parent <- ParentUp
    Baseline = {nested}
    Sessions = {s}
    Commands = {"launch", "lock", "unlock"}
    Pre = {docs, nested}
    Faults = {"scan", "capture", "deny", "set", "crash"}
INVARIANTS
    TypeOK
    QuietMeansOriginal
    OwnEntriesKept
    HeldLockDenies
    UnlockFrees
PROPERTIES
    LeavesSurviveRun
    ImplementsSealedTree
