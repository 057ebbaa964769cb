\* A message, its retry and another message, with the runs they start.
SPECIFICATION Spec
CONSTANTS
    r1 = r1
    r2 = r2
    r3 = r3
    k1 = k1
    k2 = k2
    Requests <- ThreeRequests
    Keys <- TwoKeys
    KeyOf <- Retry
    ActionSets <- Proposals
    Patches <- Changes
INVARIANTS AskedTurnWaits
PROPERTIES ImplementsLog
CHECK_DEADLOCK FALSE
