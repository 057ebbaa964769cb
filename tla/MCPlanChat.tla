------------------------------ MODULE MCPlanChat ------------------------------
(* Instance of PlanChat for TLC: ten things a user of two cities may say   *)
(* in any order, among them one the model is out for; and of the trip and  *)
(* the reply the conversation leads to.  A behaviour is one conversation,  *)
(* one trip that is planned, or one reply that is composed.                *)
EXTENDS PlanChat, TripRules, DraftRepair

CONSTANTS hz, sh, art, hike

Plain == [found |-> Nothing, rule |-> "provide_constraints", bare |-> None, wish |-> art,
          route |-> FALSE, anchors |-> FALSE, question |-> FALSE, orders |-> FALSE, noSearch |-> FALSE]
Read == [intent |-> "chitchat", patch |-> Nothing, acts |-> {}, ops |-> <<>>, goal |-> None, draft |-> FALSE]

FromShanghai == [m |-> [Plain EXCEPT !.bare = sh, !.found = [target |-> sh]],
                 reading |-> [Read EXCEPT !.intent = "clarify_answer"]]
ToHangzhou == [m |-> [Plain EXCEPT !.found = [origins |-> {sh, hz}, target |-> hz], !.orders = TRUE],
               reading |-> [Read EXCEPT !.intent = "provide_constraints"]]
AlsoHike == [m |-> [Plain EXCEPT !.wish = hike],
             reading |-> [Read EXCEPT !.intent = "refine_field",
                          !.ops = <<[op |-> "add", field |-> "requirements", value |-> {hike}]>>]]
ArtModelOut == [m |-> [Plain EXCEPT !.rule = "refine_field"], reading |-> NoReading]
MoreHikes == [m |-> [Plain EXCEPT !.wish = hike],
              reading |-> [Read EXCEPT !.intent = "deep_research", !.patch = [soft |-> {hike}]]]
MoreAndArt == [m |-> Plain,
               reading |-> [Read EXCEPT !.intent = "deep_research",
                            !.ops = <<[op |-> "add", field |-> "requirements", value |-> {art}]>>]]
MoreFromHangzhou == [m |-> Plain,
                     reading |-> [Read EXCEPT !.intent = "deep_research", !.patch = [origins |-> {hz}]]]
RouteCard == [m |-> [Plain EXCEPT !.route = TRUE, !.anchors = TRUE, !.found = [target |-> hz]],
              reading |-> [Read EXCEPT !.intent = "ask_info"]]
Recompose == [m |-> Plain, reading |-> [Read EXCEPT !.intent = "ask_info", !.acts = {"recompose_plan"}, !.draft = TRUE]]
NoSearchRain == [m |-> [Plain EXCEPT !.noSearch = TRUE, !.rule = "weather"], reading |-> NoReading]

Said == {FromShanghai, ToHangzhou, AlsoHike, ArtModelOut, MoreHikes, MoreAndArt, MoreFromHangzhou, RouteCard,
         Recompose, NoSearchRain}
Created == {Nothing, [origins |-> {sh}]}
Where == {hz}

-----------------------------------------------------------------------------
(* Trips: three members, activities that meet, overlap, end before they      *)
(* begin, are over or name no end.                                           *)

Open == {}
Band(lo, hi) == [min |-> lo, max |-> hi]
Guest(back, band) == [leave |-> {8}, back |-> back, band |-> band]
AllParties ==
    {<<Guest(Open, Band(Open, {3})), Guest({20}, Band({1}, {4})), Guest({18}, Band({3}, {3}))>>,
     <<Guest({21}, Band({2}, {5})), Guest({20}, Band({1}, {4})), Guest(Open, Band({3}, Open))>>,
     <<Guest({19}, Band({4}, Open)), Guest(Open, Band(Open, {3})), Guest(Open, Band({2}, {5}))>>}
Show(start, end, outdoor) == [start |-> start, end |-> end, outdoor |-> outdoor, expired |-> FALSE]
Shows == {Show({10}, {13}, TRUE), Show({10}, Open, FALSE), Show({13}, {16}, FALSE), Show({13}, Open, TRUE),
          Show({16}, {19}, TRUE), Show({16}, {14}, FALSE), Show({6}, {8}, FALSE), Show(Open, {15}, FALSE),
          [Show({12}, {13}, FALSE) EXCEPT !.expired = TRUE]}
Booked == {<<>>, <<"train", "hotel">>}

-----------------------------------------------------------------------------
(* Replies: four activities, two goals, and whatever the model returns.      *)

Four == [1..4 -> SUBSET {1, 2}]
TwoGoals == {<<[target |-> t, required |-> r], [target |-> 2, required |-> TRUE]>> :
               t \in 1..2, r \in BOOLEAN}

-----------------------------------------------------------------------------

NoTrip == [NewTrip(<<>>, <<>>, FALSE, FALSE) EXCEPT !.stage = "none"]
NoDraft == [stage |-> "none", cut |-> FALSE]

ChatTripOrReply ==
    /\ Init
    /\ \/ trip = NoTrip /\ draft = NoDraft
       \/ TripInit /\ draft = NoDraft
       \/ trip = NoTrip /\ DraftInit

\* Beside a trip or a reply stands a conversation in which nobody speaks.
Moves ==
    \/ trip = NoTrip /\ draft = NoDraft /\ Next /\ UNCHANGED <<trip, draft>>
    \/ TripNext /\ UNCHANGED <<vars, draft>>
    \/ DraftNext /\ UNCHANGED <<vars, trip>>

MCSpec == ChatTripOrReply /\ [][Moves]_<<vars, trip, draft>>
=============================================================================
