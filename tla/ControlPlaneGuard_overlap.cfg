\* Two launches of one project overlap.
SPECIFICATION Spec
CONSTANTS
    root = root
    rad = rad
    docs = docs
    nested = nested
    Root = root
    ControlDirs = {rad}
    Paths = {root, rad}
    Rank <- Order
    Leaves = {}
    Inside <- Below
    Movable = {}
    Parent <- ParentUp
    Baseline = {}
    Sessions = {s, t}
    Commands = {"launch"}
    Pre = {}
    Faults = {}
INVARIANT
    HeldLockDenies
SYMMETRY Symmetric
