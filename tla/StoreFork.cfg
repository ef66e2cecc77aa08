SPECIFICATION Spec
CONSTANTS
    Procs = {p1, p2}
    NoProc = NoProc
    NoManifest = NoManifest
    EntryBytes = {3}
    SegmentMaxBytes = 4
    Advisory = {FALSE}
    MaxEntries = 2
    ShortWrites = FALSE
    MaxFaults = 0
INVARIANTS
    ChainValid
