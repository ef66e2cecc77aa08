SPECIFICATION Spec
CONSTANTS
    t1 = t1
    t2 = t2
    s1 = s1
    s2 = s2
    Threads = {t1}
    Sessions = {s1}
    Restarts = FALSE
    Failures = FALSE
    Busy = FALSE
    MaxRequests = 3
    MaxLog = 3
    MaxExternal = 1
CHECK_DEADLOCK FALSE
INVARIANTS
    AnswersExact
