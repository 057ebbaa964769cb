SPECIFICATION Spec
CONSTANTS
    show = show
    walk = walk
    mall = mall
    art = art
    hike = hike
    Titles <- ThreeTitles
    Goals <- TwoGoals
    Open <- WebFinds
    Suggests <- Suggested
    Meets <- Satisfied
    Needs <- Criteria
    Proves <- Evidence
    TargetCount <- OneEach
    JudgeBatch = 2
    PlanLimit = 3
    KeptByDefault = 1
    MinEntities = 2
    MaxLoops = 2
    MaxAttempts = 3
    ReplanFrom <- ReplanNodes
    MaxTurns = 2
    Keys = TRUE
INVARIANTS FeedbackIsSearched ExtensionKeepsPlan OutageKeepsPlan ImprovementIsNew SufficientIsCovered
PROPERTIES TurnEnds
CHECK_DEADLOCK FALSE
