\* The deployed configuration: one worker process with two runs; it may be
\* restarted and an execution may raise.
SPECIFICATION FairSpec
CONSTANTS
    p1 = p1
    w1 = w1
    w2 = w2
    Runs <- TwoRuns
    Plans <- OnePlan
    PlanOf <- SamePlan
    Workers <- Single
    MaxRetries = 1
    MaxCrashes = 1
    MaxFaults = 1
    Modes <- GraphOnly
    UserCancels = FALSE
    WebUses = FALSE
INVARIANTS ChildAfterParent
PROPERTIES OnlyCancelOverturns RunsEnd
CHECK_DEADLOCK FALSE
