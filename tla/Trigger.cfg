SPECIFICATION FairSpec
CONSTANTS
    Total = 2
    Streams = {s1, s2}
    Buffer = 1
    Repeats = 1
    Failures = {"start", "timeout", "crash"}
CHECK_DEADLOCK FALSE
INVARIANTS
    JobsSound
    EndsComplete
PROPERTIES
    SubscribersEnd
