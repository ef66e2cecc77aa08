SPECIFICATION FairSpec
CONSTANTS
    Apps = {a1}
    Replicas = {p1, p2}
    Annotations <- AllAnnotations
    Revisions = {1}
    MaxOps = 2
    MaxFaults = 1
    FaultKinds = {"watch", "refused", "query", "reply", "stop"}
CHECK_DEADLOCK FALSE
INVARIANTS
    RecordsSound
PROPERTIES
    CompletionRecorded
