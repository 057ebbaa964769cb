------------------------------- MODULE TripRules ------------------------------
(***************************************************************************)
(* The limits of a party put together and the timeline solved from them.   *)
(* TripGraph has the order in which the graph runs these; here is what     *)
(* they compute.  A behaviour is one trip: its members are met one after   *)
(* another, activities are found, and the solver looks at one after        *)
(* another.                                                                *)
(*                                                                         *)
(* Times are hours; one that may be missing, like a limit somebody did not *)
(* give, is a set with at most one element.                                *)
(***************************************************************************)
EXTENDS Integers, Sequences, FiniteSets

CONSTANTS
    Parties,        \* the members a trip may have, each a sequence
    Finds,          \* activities discovery may find
    Bookings,       \* what may be booked, each a sequence of kinds
    Now,            \* the hour the solver runs
    MaxPlaceable,   \* activities the solver looks at (8)
    MaxFinds        \* bound: activities of a trip

Hours == {h \in SUBSET Int : \A a, b \in h : a = b}
Limits == [min : Hours, max : Hours]
Member == [leave : Hours, back : Hours, band : Limits]
Find == [start : Hours, end : Hours, outdoor : BOOLEAN, expired : BOOLEAN]

ASSUME PartiesAssumption == Parties \subseteq Seq(Member) \ {<<>>}
ASSUME FindsAssumption == Finds \subseteq Find
ASSUME BookingsAssumption == Bookings \subseteq Seq(STRING)
ASSUME HoursAssumption == Now \in Int /\ MaxPlaceable \in Nat /\ MaxFinds \in Nat

VARIABLE trip   \* its members and their limits, its activities and the slots

Value(value) == CHOOSE v \in value : TRUE
Greatest(values) == {v \in values : \A w \in values : w <= v}
Least(values) == {v \in values : \A w \in values : v <= w}

-----------------------------------------------------------------------------
(* The party.                                                              *)

\* Disjoint bands are answered by the band that spans both.
IntersectBands(b, c) ==
    LET lo == Greatest(b.min \cup c.min)
        hi == Least(b.max \cup c.max)
    IN  IF \E x \in lo, y \in hi : x > y
          THEN [min |-> Least(b.min \cup c.min), max |-> Greatest(b.max \cup c.max)]
          ELSE [min |-> lo, max |-> hi]

NoLimits == [leave |-> {}, back |-> {}, band |-> [min |-> {}, max |-> {}]]

\* aggregate_party, as far as the members before m have been put together.
Aggregated(limits, m) ==
    [leave |-> Greatest(limits.leave \cup m.leave),
     back |-> Least(limits.back \cup m.back),
     band |-> IntersectBands(limits.band, m.band)]

-----------------------------------------------------------------------------
(* The timeline.                                                           *)

Slot(kind, start, end) == [kind |-> kind, start |-> start, end |-> end]
OfKind(slots, kind) == {i \in DOMAIN slots : slots[i].kind = kind}

\* The solver keeps an anchor's title and evidence, not its times.
Anchor(booking) == Slot(IF booking = "hotel" THEN "lodging" ELSE "transport", {}, {})

\* Neither expired, nor inverted, nor over.
PlaceableActivity(a) ==
    /\ a.start # {}
    /\ ~ a.expired
    /\ \A e \in a.end : e >= Now /\ \A s \in a.start : e >= s

\* By start; in bad weather what is indoors comes first.
Earlier(a, b, adverse) ==
    IF adverse /\ a.outdoor # b.outdoor THEN b.outdoor ELSE Value(a.start) < Value(b.start)

\* An activity without an end is taken to last two hours.
EndOf(a) == IF a.end = {} THEN Value(a.start) + 2 ELSE Value(a.end)
Overlap(a, b) == ~ (EndOf(a) <= Value(b.start) \/ Value(a.start) >= EndOf(b))

\* Mutant: only the activity placed last is looked at.
FitsBehindLast(a, slots) ==
    \A i \in OfKind(slots, "activity") :
        (\A j \in OfKind(slots, "activity") : j <= i) => ~ Overlap(a, slots[i])

Fits(a, slots) == \A i \in OfKind(slots, "activity") : ~ Overlap(a, slots[i])

\* Greedy: whatever would end too late or overlap is left out; a meal follows
\* the second activity.
PlacedIn(slots, a, back, dining) ==
    LET placed == Append(slots, Slot("activity", a.start, a.end))
        eats == dining /\ OfKind(slots, "activity") # {} /\ OfKind(slots, "meal") = {}
    IN  IF (\E l \in back : EndOf(a) > l) \/ ~ Fits(a, slots) THEN slots
        ELSE IF eats THEN Append(placed, Slot("meal", {}, {})) ELSE placed

\* validate_timeline: what it finds in the slots.
Issues(slots, back) ==
    LET timed == {i \in DOMAIN slots : slots[i].start # {} /\ slots[i].end # {}}
        S(i) == Value(slots[i].start)
        E(i) == Value(slots[i].end)
        ends == UNION {slots[i].end : i \in DOMAIN slots}
    IN  (IF \E i, j \in timed : i < j /\ S(i) < E(j) /\ S(j) < E(i) THEN {"HARD_CONFLICT"} ELSE {})
          \cup (IF \E l \in back, e \in ends : e > l THEN {"RETURN_TIGHT"} ELSE {})
          \cup (IF \E i \in timed : E(i) < S(i) THEN {"INVERTED_RANGE"} ELSE {})
          \cup (IF \E i \in OfKind(slots, "activity") : \E e \in slots[i].end : e < Now
                  THEN {"EXPIRED_ACTIVITY"} ELSE {})

-----------------------------------------------------------------------------
(* The trip.                                                               *)

NewTrip(members, bookings, dining, adverse) ==
    [stage |-> "open", members |-> members, met |-> 0, limits |-> NoLimits,
     bookings |-> bookings, dining |-> dining, adverse |-> adverse,
     activities |-> <<>>, seen |-> {}, slots |-> <<>>]

TripInit ==
    \E p \in Parties, b \in Bookings, dining, adverse \in BOOLEAN :
        trip = NewTrip(p, b, dining, adverse)

AllMet == trip.met = Len(trip.members)

Meet ==
    /\ trip.stage = "open" /\ ~ AllMet
    /\ trip' = [trip EXCEPT !.met = @ + 1,
                            !.limits = Aggregated(@, trip.members[trip.met + 1])]

\* Discovery, in any order.
Discover ==
    /\ trip.stage = "open" /\ AllMet
    /\ Len(trip.activities) < MaxFinds
    /\ \E a \in Finds : trip' = [trip EXCEPT !.activities = Append(@, a)]

\* solve_timeline: anchors first,
PlaceAnchors ==
    /\ trip.stage = "open" /\ AllMet
    /\ trip' = [trip EXCEPT !.stage = "placing",
                            !.slots = [i \in DOMAIN trip.bookings |-> Anchor(trip.bookings[i])]]

Waiting == {i \in DOMAIN trip.activities \ trip.seen : PlaceableActivity(trip.activities[i])}

\* The sort is stable.
IsNext(i) ==
    LET Sooner(j, k) == Earlier(trip.activities[j], trip.activities[k], trip.adverse)
    IN  \A j \in Waiting : Sooner(i, j) \/ (~ Sooner(j, i) /\ i <= j)

\* then the activities in their order,
PlaceNext ==
    /\ trip.stage = "placing"
    /\ Cardinality(trip.seen) < MaxPlaceable
    /\ \E i \in Waiting :
         /\ IsNext(i)
         /\ trip' = [trip EXCEPT !.seen = @ \cup {i},
                                 !.slots = PlacedIn(@, trip.activities[i], trip.limits.back, trip.dining)]

\* and a buffer for the way back.
Close ==
    /\ trip.stage = "placing"
    /\ Waiting = {} \/ Cardinality(trip.seen) >= MaxPlaceable
    /\ trip' = [trip EXCEPT !.stage = "solved",
                            !.slots = IF @ = <<>> THEN @ ELSE Append(@, Slot("buffer", {}, {}))]

TripNext == Meet \/ Discover \/ PlaceAnchors \/ PlaceNext \/ Close
TripSpec == TripInit /\ [][TripNext]_trip

-----------------------------------------------------------------------------
(* Properties.                                                             *)

\* The timeline solved for a party has nothing two places at once, counting
\* the two hours of an activity that names no end, although in bad weather
\* it is not filled in the order of time; it keeps no member longer than
\* that member can stay, and the validator has nothing to object.
TimelineSuitsAll ==
    LET acts == OfKind(trip.slots, "activity")
    IN  /\ Issues(trip.slots, trip.limits.back) = {}
        /\ \A i \in acts :
             /\ \A j \in acts : i # j => ~ Overlap(trip.slots[i], trip.slots[j])
             /\ \A m \in DOMAIN trip.members : \A l \in trip.members[m].back : EndOf(trip.slots[i]) <= l

\* A budget that suits every member, if there is one, is what the aggregation
\* finds, in whatever order the members are stored.
Within(b, x) == (\A lo \in b.min : lo <= x) /\ (\A hi \in b.max : x <= hi)
SuitsAll(x) == \A m \in DOMAIN trip.members : Within(trip.members[m].band, x)
Named == UNION {trip.members[m].band.min \cup trip.members[m].band.max : m \in DOMAIN trip.members}
BandSuitsAll ==
    (\E x \in Named : SuitsAll(x)) => \A x \in Named : Within(trip.limits.band, x) <=> SuitsAll(x)

\* The limits put together and the timeline solved from them suit every
\* member (domain/constraints.py, domain/timeline.py).
TripsSuit ==
    /\ AllMet => BandSuitsAll
    /\ trip.stage = "solved" => TimelineSuitsAll
=============================================================================
