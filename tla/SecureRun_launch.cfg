\* A launch and an admission in a distribution that fails at most one check, or the two
\* that a failed call passes.  One mandatory file is in a control directory and is edited
\* while the launch reads the project; the other one is in an ordinary directory.
SPECIFICATION FairSpec
CONSTANTS
    nested = nested
    plugin = plugin
    Launches = {a, b}
    Admissions = {b}
    Files = {nested, plugin}
    Controlled = {nested, plugin}
    Mandatory = {nested, plugin}
    Standard = {plugin}
    Directories <- Docs
    Editable = {plugin}
    Distros <- OneShort
    Faults = {"call", "local", "tar", "chattr", "python", "enumerate", "survive"}
INVARIANTS
    TypeOK
    OnlyCertified
    GuardedWhileRunning
    StagedAsVerified
    ProbeHonest
    OnlyProtectedStay
CHECK_DEADLOCK FALSE
PROPERTY
    StagedEnds
