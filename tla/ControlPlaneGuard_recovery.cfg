\* An operator unlocks after a launch was killed while restoring.
SPECIFICATION Spec
CONSTANTS
    root = root
    rad = rad
    docs = docs
    nested = nested
    Root = root
    ControlDirs = {rad}
    Paths = {root, rad, docs, nested}
    Rank <- Order
    Leaves = {nested}
    Inside <- Below
    Movable = {}
    Parent <- ParentUp
    Baseline = {nested}
    Sessions = {s}
    Commands = {"launch", "unlock"}
    Pre = {}
    Faults = {"crash"}
INVARIANT
    RecoveryPossible
