----------------------------- MODULE MCTripGraph -----------------------------
(* Instances of TripGraph for TLC: an exhibition from the database that    *)
(* meets one subgoal, a web find filed under both that meets the other,    *)
(* and a web find the judge rejects.                                       *)
EXTENDS TripGraph, TLC

CONSTANTS show, walk, mall, art, hike

ThreeTitles == {show, walk, mall}
TwoGoals == {art, hike}
WebFinds == {walk, mall}
Suggested == show :> {} @@ walk :> {hike} @@ mall :> {art}
Satisfied == show :> {art} @@ walk :> {hike} @@ mall :> {}
Criteria == art :> {"exhibits"} @@ hike :> {"trail"}
Evidence == show :> {"exhibits"} @@ walk :> {"trail"} @@ mall :> {}
OneEach == art :> 1 @@ hike :> 1
ReplanNodes == {"research", "transport", "weather", "compose"}
=============================================================================
