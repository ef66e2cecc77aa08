SPECIFICATION FairSpec
CONSTANTS
    Procs = {p1}
    NoProc = NoProc
    NoManifest = NoManifest
    EntryBytes = {2, 3}
    SegmentMaxBytes = 4
    Advisory = {FALSE}
    MaxEntries = 5
    ShortWrites = TRUE
    MaxFaults = 2
CHECK_DEADLOCK FALSE
INVARIANTS
    OneBreakPerFault
    FindSeesAcked
PROPERTIES
    LockReleased
