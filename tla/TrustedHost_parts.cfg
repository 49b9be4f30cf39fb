\* Each part by itself: racing installers and a reader, racing start clients, two writers
\* and a reader, two generators and a check under edits, every path of three segments.
SPECIFICATION HostSpec
CONSTANTS
    Installers = {i, j}
    Readers = {r}
    Payload = {policy, extra}
    Release = {policy}
    Manifest = manifest
    Root = root
    NoFile = NoFile
    Creators = {a, b}
    Users = {u}
    KeyFaults = {"kill", "icacls", "short"}
    FoundAcls <- MCFoundAcls
    OldKey = OldKey
    NoKey = NoKey
    Writers = {v, w}
    FileReaders = {f}
    Depth = 2
    Length <- MCLength
    Nobody = Nobody
    Partial = Partial
    Generators = {g, h}
    Checkers = {k}
    Runtimes = {codex, claude}
    Selections <- MCSelections
    codex = codex
    claude = claude
    retired = retired
    kept = kept
    CanonFiles = {radmanifest}
    RadManifest = radmanifest
    LastVersion = 2
    Paths = {retired, kept}
    NoPath = NoPath
    AdapterSet <- MCAdapterSet
    Names <- MCNames
    DeviceNames <- MCDeviceNames
    MaxSegments = 3
    MaxOdd = 1
INVARIANTS
    HostTypeOK
    AcceptedStays
    InstalledIsPinned
    KeyAgreement
    KeyIsPrivate
    StaysInside
    ReadsLastWrite
    VerdictIsRight
    GeneratedIsCurrent
    OneClassPerFile
    DutiesSeparated
SYMMETRY Symmetric
CHECK_DEADLOCK FALSE
