SPECIFICATION FairSpec
CONSTANTS
    MaxRequests = 3
    Keys = {k1}
    NoKey = NoKey
    NoClaim = NoClaim
    Kinds = {"prescribe", "report"}
    SoftReports = {FALSE, TRUE}
    Conns = 2
    MaxFaults = 1
CHECK_DEADLOCK FALSE
INVARIANTS
    ExactlyOnce
    NeverMissing
    ReportsLinked
PROPERTIES
    ImplementsAppendLog
    Answered
