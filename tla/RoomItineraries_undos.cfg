\* Two undos of a room whose itinerary was published and modified twice.
SPECIFICATION Spec
CONSTANTS
    p1 = p1
    p2 = p2
    q1 = q1
    q2 = q2
    q3 = q3
    q4 = q4
    Requests <- Many
    Publications <- TwoPublications
    Keep = 3
INVARIANTS AlwaysOneToShow
SYMMETRY Alike
CHECK_DEADLOCK FALSE
