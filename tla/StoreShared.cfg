SPECIFICATION Spec
CONSTANTS
    Procs = {p1, p2}
    NoProc = NoProc
    NoManifest = NoManifest
    EntryBytes = {3}
    SegmentMaxBytes = 4
    Advisory = {TRUE}
    MaxEntries = 3
    ShortWrites = FALSE
    MaxFaults = 2
PROPERTIES
    SealedImmutable
    ImplementsAppendLog
