SPECIFICATION BinarySpec
CONSTANTS
    r1 = r1
    k1 = k1
    Requests <- MCRequests
    Shells = {k1}
    Sessions = {s1}
    NoSession = NoSession
    Intents = {i1}
    Modes = {"strict", "best_effort"}
    Tools = {"run_command", "prescribe_smart", "report"}
    Commands = {"refused", "read", "mutation"}
    Outcomes <- MCOutcomes
    TTL = 0
    Exited = {"positive", "negative"}
    MaxCalls <- MCMaxCalls
    MaxFaults = 1
    MaxTime = 1
    RpcIds = {1, 2}
    CallKinds = {"command", "other"}
    Answers <- MCAnswers
    MaxRpc = 2
    MaxAsks = 1
    MaxProxyFaults = 1
CHECK_DEADLOCK FALSE
INVARIANTS
    ReportsLinked
    AnswersStand
    MutationsRecorded
    RetriesSound
    HostedComplete
    RelaysSound
