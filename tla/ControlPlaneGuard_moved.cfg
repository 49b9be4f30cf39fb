\* A control file two ordinary directories deep: the lower one can be renamed.
SPECIFICATION Spec
CONSTANTS
    root = root
    rad = rad
    docs = docs
    nested = nested
    Root = root
    ControlDirs = {}
    Paths = {root, docs, nested}
    Rank <- Order
    Leaves = {nested}
    Inside <- Below
    Movable = {docs}
    Parent <- ParentUp
    Baseline = {nested}
    Sessions = {s}
    Commands = {"launch"}
    Pre = {}
    Faults = {}
PROPERTY
    LockedLeavesStay
