\* Two worker processes on one run: duplicate rows, cancels, a crash, an
\* exception, and the web process taking the lock.
SPECIFICATION Spec
CONSTANTS
    p1 = p1
    w1 = w1
    w2 = w2
    Runs <- OneRun
    Plans <- OnePlan
    PlanOf <- SamePlan
    Workers <- Pair
    MaxRetries = 1
    MaxCrashes = 1
    MaxFaults = 1
    Modes <- AllModes
    UserCancels = TRUE
    WebUses = TRUE
INVARIANTS TypeOK RowsHeldOnce QueuedHasCarrier TurnMirrorsRun 
PROPERTIES VerdictStands
CHECK_DEADLOCK FALSE
