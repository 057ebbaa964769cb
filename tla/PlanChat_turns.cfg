SPECIFICATION MCSpec
CONSTANTS
    None = None
    hz = hz
    sh = sh
    art = art
    hike = hike
    Turns <- Said
    Forms <- Created
    Areas <- Where
    MaxTurns = 4
    Parties <- AllParties
    Finds <- Shows
    Bookings <- Booked
    Now = 9
    MaxPlaceable = 3
    MaxFinds = 4
    Candidates <- Four
    GoalLists <- TwoGoals
    MaxFallback = 3
    MaxItinerary = 4
    MaxReply = 2
INVARIANTS BookedPlanIsCurrent ContinuesOnItsRoute OfferIsServed TripsSuit DraftsServe
CHECK_DEADLOCK FALSE
