SPECIFICATION Spec
CONSTANTS
    gov = gov
    blog = blog
    a = a
    b = b
    forum = forum
    d = d
    art = art
    hike = hike
    Pages <- ThreePages
    Prints <- ThreePrints
    PrintOf <- PagePrint
    TrustOf <- PageTrust
    DayOf <- PrintDay
    SameTitle <- Titled
    SameMeaning <- Meant
    Wanted <- TwoGoals
    Gaps = 1
    RawPlans <- Plans
    Tools <- BothTools
    Dated <- DatedPages
    MaxTasks = 2
    MaxRounds = 2
    MaxVerified = 1
    MinCoverage = 80
    MaxCalls = 1
INVARIANTS EventStaysVisible TrustedIsBacked ReportIsStored NoResultsIsHonest
PROPERTIES CallEnds
CHECK_DEADLOCK FALSE
