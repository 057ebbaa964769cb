\* Two publications, four modifications or undos, a restart.
SPECIFICATION Spec
CONSTANTS
    p1 = p1
    p2 = p2
    q1 = q1
    q2 = q2
    q3 = q3
    q4 = q4
    Requests <- Many
    Publications <- TwoPublications
    Keep = 3
INVARIANTS VersionsDistinct SomeCurrent
PROPERTIES ImplementsHistory
SYMMETRY Alike
CHECK_DEADLOCK FALSE
