\* The enumeration of the guard script dies.
SPECIFICATION Spec
CONSTANTS
    nested = nested
    plugin = plugin
    Launches = {a}
    Admissions = {}
    Files = {agents, nested, plugin}
    Controlled = {agents, nested, plugin}
    Mandatory = {agents, nested}
    Standard = {agents, plugin}
    Directories <- Docs
    Editable = {}
    Distros <- GoodDistro
    Faults = {"enumerate"}
INVARIANT
    FailsClosed
CHECK_DEADLOCK FALSE
