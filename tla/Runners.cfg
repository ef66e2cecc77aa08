SPECIFICATION QueueFairSpec
CONSTANTS
    Runners = {r1, r2}
    NoRunner = NoRunner
    Jobs = {1}
    Scenarios = 1
    MaxClaims = 2
CHECK_DEADLOCK FALSE
PROPERTIES
    OnlyStaleTaken
    EndedByOwner
    ClaimedRequeued
