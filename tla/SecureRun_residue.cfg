\* The baseline protects a file outside the standard surface.
SPECIFICATION Spec
CONSTANTS
    nested = nested
    plugin = plugin
    Launches = {a}
    Admissions = {}
    Files = {agents, nested, plugin}
    Controlled = {agents, nested, plugin}
    Mandatory = {agents, nested}
    Standard = {agents, plugin}
    Directories <- Docs
    Editable = {}
    Distros <- GoodDistro
    Faults = {}
INVARIANT
    NothingLeft
CHECK_DEADLOCK FALSE
