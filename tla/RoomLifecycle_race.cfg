SPECIFICATION MCSpec
CONSTANTS
    c1 = c1
    c2 = c2
    c3 = c3
    art = art
    food = food
    Clients <- Three
    Themes <- TwoThemes
    MaxRequests = 7
    Faults = TRUE
    Restarts = TRUE
    DefaultThemes <- Defaults
    Groups <- AllGroups
    Activities <- Selectable
    Decisions <- Said
    MaxRevisions = 3
INVARIANTS PublishedOnce PublishedHasPlan OutingsSuit OutingsGather
SYMMETRY Alike
CHECK_DEADLOCK FALSE
