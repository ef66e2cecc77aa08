SPECIFICATION Spec
CONSTANTS
    t1 = t1
    t2 = t2
    s1 = s1
    s2 = s2
    Threads = {t1, t2}
    Sessions = {s1, s2}
    MaxExternal = 1
    Restarts = TRUE
    Failures = TRUE
    Busy = TRUE
    MaxRequests = 3
    MaxLog = 4
CHECK_DEADLOCK FALSE
INVARIANTS
    StatesSound
    ExactAlone
    AnswersLinked
PROPERTIES
    AnswersMonotone
SYMMETRY Goroutines
