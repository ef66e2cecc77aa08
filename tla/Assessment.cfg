SPECIFICATION Spec
CONSTANTS
    a1 = a1
    a2 = a2
    i1 = i1
    i2 = i2
    d1 = d1
    d2 = d2
    k8s = k8s
    prod = prod
    dev = dev
    All = All
    Scope <- MCScope
    EntryIDs <- MCEntryIDs
    Actors <- MCActors
    Intents <- MCIntents
    Artifacts <- MCArtifacts
    Plans <- MCPlans
    Outcomes <- MCOutcomes
    NoArtifact = NoArtifact
    NoIntent = NoIntent
    Area <- MCArea
    Tool <- MCTool
    Severity <- MCSeverity
    Destroys <- MCDestroys
    TTL = 1
    RetryThreshold = 2
    VariantThreshold = 3
    RetryWindow = 1
    ThrashingThreshold = 2
    BaselineWindow = 2
    MinBaselineSamples = 1
    MinOperations = 2
    MaxEntries <- MCMaxEntries
    MaxTime = 2
    Skew = 1
SYMMETRY Sym
CHECK_DEADLOCK FALSE
INVARIANTS
    AccountsExact
    SequencesSound
    ScorecardsFaithful
PROPERTIES
    VerdictsCausal
    WaitingNeverHelps
